---- MODULE Spec2Model ----
(***************************************************************************)
(* A model of the openhoof agent runtime: the AgentManager (start, stop,   *)
(* chat and the agent turn with its tool-call loop), the TranscriptStore,  *)
(* the AutonomyLoop's guardrails and the SubagentRegistry.                 *)
(*                                                                         *)
(* The runtime is one asyncio event loop: the code between two awaits     *)
(* that really suspend runs atomically, so every action below is one such  *)
(* segment of a coroutine.                                                 *)
(***************************************************************************)
EXTENDS Integers, Sequences, FiniteSets, TLC

(***************************************************************************)
(* Bounds of the model and constants of the program.                       *)
(***************************************************************************)
MaxTurns == 2
MaxStops == 1
MaxToolRounds == 2

MAX_CONTEXT_MESSAGES == 30
COMPACT_KEEP_LAST == 10

Agents == {"a"}
(* The coroutines that call into the AgentManager at the same time.        *)
Tasks == {1, 2}

(* Callers of AgentManager: the API (start_agent, chat), the heartbeat     *)
(* runner and the autonomy loop of a running agent.                        *)
Callers == {"start", "chat", "heartbeat", "autonomy"}
TurnCallers == {"chat", "heartbeat", "autonomy"}

(* Session keys of an agent: agent:<id>:main, :heartbeat, :autonomy.       *)
SessionKinds == {"main", "heartbeat", "autonomy"}

VARIABLES
    agents,        \* AgentManager._agents: agent id -> handle id (0: no handle)
    created,       \* number of AgentHandle objects constructed per agent
    hb_tasks,      \* live HeartbeatRunner tasks per agent (handle ids)
    loop_tasks,    \* live AutonomyLoop tasks (with their sensors) per agent
    ev_started,    \* agent:started events emitted per agent
    ev_stopped,    \* agent:stopped events emitted per agent
    ev_message,    \* agent:message events emitted per agent
    config,        \* AgentConfig read from agent.yaml
    workspace_ok,  \* the agent's workspace directory exists
    task,          \* the coroutines: position and locals of each
    transcript,    \* TranscriptStore: session -> messages
    summary,       \* Transcript.summary per session
    compaction_count,
    total_tokens,  \* SessionEntry.total_tokens per session
    n_turns        \* number of turns begun (gives each turn its identity)

mgr_vars == <<agents, created, hb_tasks, loop_tasks, ev_started, ev_stopped, ev_message,
              config, workspace_ok, task, transcript, summary,
              compaction_count, total_tokens, n_turns>>

VARIABLES
    now,                 \* time.time(), in seconds
    loop,                \* the fields of the AutonomyLoop and the position of its task
    lcfg,                \* AutonomyConfig
    hs_notifs,           \* HotState.has_notifications()
    hs_changed,          \* HotState.diff_since(_last_snapshot_time) is not empty
    ev_guardrail,        \* autonomy:guardrail_triggered events, per guardrail
    ev_turn_started,     \* autonomy:turn_started events
    ev_turn_completed,   \* autonomy:turn_completed events
    ev_precheck_skipped, \* autonomy:precheck_skipped events
    reported_this_hour   \* total_tokens reported by the turns since the hour counter started

loop_vars == <<now, loop, lcfg, hs_notifs, hs_changed, ev_guardrail, ev_turn_started,
               ev_turn_completed, ev_precheck_skipped, reported_this_hour>>

VARIABLES
    clock,               \* datetime.now().timestamp(), in seconds
    runs,                \* SubagentRegistry._runs: run id -> SubagentRun
    sub_tasks,           \* SubagentRegistry._tasks: the runs with a live task
    saved_runs,          \* the runs as last written to subagent_runs.json
    sub_events,          \* the subagent:* events in the history of the event bus
    ticks                \* how many times time has been let pass

sub_vars == <<clock, runs, sub_tasks, saved_runs, sub_events, ticks>>

VARIABLES
    stop_returned,       \* what stop_agent returned, if it was the manager's last step
    stop_log             \* what the last stop_agent that found a handle did, in order

stop_vars == <<stop_returned, stop_log>>

VARIABLES
    hs_now,              \* time.time() as the hot state reads it
    hs_fields,           \* HotState._fields: name -> config, value, updated_at
    hs_queue,            \* HotState._notifications: the names, oldest first
    hs_last,             \* the last set or append: its number, field and result
    hs_supplied          \* per field, the elements supplied since its last set

hot_vars == <<hs_now, hs_fields, hs_queue, hs_last, hs_supplied>>

VARIABLES
    sensor,              \* one PollSensor: its task, _backoff, _signal_last_fired
    scfg,                \* its configuration: interval and one signal
    sensor_events,       \* the autonomy:sensor_* and notification_pushed events
    pushes               \* the times of its last two notifications, newest first

sensor_vars == <<sensor, scfg, sensor_events, pushes>>

VARIABLES
    nap                  \* one call of AutonomyLoop._sleep_with_wake_early

nap_vars == <<nap>>

VARIABLES
    parsed               \* one call of _parse_yield_from_response: text and result

parse_vars == <<parsed>>

VARIABLES
    bus_history,         \* EventBus._event_history
    bus_prefill,         \* how many events the history held at the start
    bus_count,           \* how many events were emitted since
    bus_subscribers,     \* EventBus._subscribers: event type or "*" -> callbacks
    bus_regs,            \* how many subscribe calls were made
    bus_stamp,           \* callback -> the number of its subscribe call
    bus_websockets,      \* EventBus._websockets
    bus_connected,       \* the clients whose socket was ever registered
    bus_emit,            \* component -> its call of emit and where it is suspended
    bus_observed,        \* every call of a callback, in the order of the calls
    bus_got,             \* client -> the events its send_text delivered
    bus_raised,          \* the clients whose send_text raised
    bus_returns,         \* the calls of emit that ended, in that order
    recent               \* the last call of get_recent_events and its result

bus_vars == <<bus_history, bus_prefill, bus_count, bus_subscribers, bus_regs,
              bus_stamp, bus_websockets, bus_connected, bus_emit, bus_observed,
              bus_got, bus_raised, bus_returns, recent>>

VARIABLES
    store,               \* one transcript of the TranscriptStore, as saved
    store_call           \* the last call of TranscriptStore.compact

store_vars == <<store, store_call>>

VARIABLES
    memory_call          \* one call of the memory_write or memory_read tool

memory_vars == <<memory_call>>

VARIABLES
    listing              \* one call of ToolRegistry.get_openai_schemas

registry_vars == <<listing>>

VARIABLES
    rt,                  \* one AutonomyLoop inside _run_turn: its position and fields
    rt_clock,            \* time.time() as the loop and the hot state read it
    rt_notifications,    \* HotState._notifications, by the number of the push
    rt_pushes,           \* push_notification calls so far
    rt_field,            \* one HotStateField: value (the number of the write), updated_at
    rt_writes,           \* HotState.set calls so far
    rt_seen              \* the writes that a pre-check or a turn message reported

turn_vars == <<rt, rt_clock, rt_notifications, rt_pushes, rt_field, rt_writes, rt_seen>>

VARIABLES
    score_call           \* one call of Sensor._parse_score

score_vars == <<score_call>>

VARIABLES
    yielded              \* one call of the yield tool, and its message as the loop parses it

yield_vars == <<yielded>>

(* What a step of one part of the program leaves alone; stop_agent is the  *)
(* one step of the manager that writes stop_vars.                          *)
not_stop ==
    <<loop_vars, sub_vars, hot_vars, sensor_vars, nap_vars, parse_vars,
      bus_vars, store_vars, memory_vars, registry_vars, turn_vars,
          score_vars, yield_vars>>
not_loop ==
    <<mgr_vars, sub_vars, stop_vars, hot_vars, sensor_vars, nap_vars, parse_vars,
      bus_vars, store_vars, memory_vars, registry_vars, turn_vars,
          score_vars, yield_vars>>
not_sub ==
    <<loop_vars, stop_vars, hot_vars, sensor_vars, nap_vars, parse_vars,
      bus_vars, store_vars, memory_vars, registry_vars, turn_vars,
          score_vars, yield_vars>>
not_hot ==
    <<mgr_vars, loop_vars, sub_vars, stop_vars, sensor_vars, nap_vars, parse_vars,
      bus_vars, store_vars, memory_vars, registry_vars, turn_vars,
          score_vars, yield_vars>>
not_sensor ==
    <<mgr_vars, loop_vars, sub_vars, stop_vars, nap_vars, parse_vars,
      bus_vars, store_vars, memory_vars, registry_vars, turn_vars,
          score_vars, yield_vars>>
not_nap ==
    <<mgr_vars, loop_vars, sub_vars, stop_vars, sensor_vars, hot_vars, parse_vars,
      bus_vars, store_vars, memory_vars, registry_vars, turn_vars,
          score_vars, yield_vars>>
not_parse ==
    <<mgr_vars, loop_vars, sub_vars, stop_vars, sensor_vars, hot_vars, nap_vars,
      bus_vars, store_vars, memory_vars, registry_vars, turn_vars,
          score_vars, yield_vars>>
not_bus ==
    <<mgr_vars, loop_vars, sub_vars, stop_vars, sensor_vars, hot_vars, nap_vars,
      parse_vars, store_vars, memory_vars, registry_vars, turn_vars,
          score_vars, yield_vars>>
not_store ==
    <<mgr_vars, loop_vars, sub_vars, stop_vars, sensor_vars, hot_vars, nap_vars,
      parse_vars, bus_vars, memory_vars, registry_vars, turn_vars,
          score_vars, yield_vars>>
not_memory ==
    <<mgr_vars, loop_vars, sub_vars, stop_vars, sensor_vars, hot_vars, nap_vars,
      parse_vars, bus_vars, store_vars, registry_vars, turn_vars,
          score_vars, yield_vars>>
not_registry ==
    <<mgr_vars, loop_vars, sub_vars, stop_vars, sensor_vars, hot_vars, nap_vars,
      parse_vars, bus_vars, store_vars, memory_vars, turn_vars, score_vars, yield_vars>>
not_turn ==
    <<mgr_vars, loop_vars, sub_vars, stop_vars, sensor_vars, hot_vars, nap_vars,
      parse_vars, bus_vars, store_vars, memory_vars, registry_vars, score_vars, yield_vars>>
not_score ==
    <<mgr_vars, loop_vars, sub_vars, stop_vars, sensor_vars, hot_vars, nap_vars,
      parse_vars, bus_vars, store_vars, memory_vars, registry_vars, turn_vars, yield_vars>>
not_yield ==
    <<mgr_vars, loop_vars, sub_vars, stop_vars, sensor_vars, hot_vars, nap_vars,
      parse_vars, bus_vars, store_vars, memory_vars, registry_vars, turn_vars,
      score_vars>>

(* What a step of the manager on the autonomy loop of an agent leaves      *)
(* alone.                                                                  *)
not_owner ==
    <<sub_vars, hot_vars, sensor_vars, nap_vars, parse_vars, bus_vars, store_vars,
      memory_vars, registry_vars, turn_vars, score_vars, yield_vars>>

(* A step of the manager other than stop_agent: no stop_agent has just     *)
(* returned.                                                               *)
NotAStop ==
    /\ UNCHANGED not_stop
    /\ stop_returned' = [a \in Agents |-> "none"]
    /\ UNCHANGED stop_log

IdleTask == [pc |-> "idle", caller |-> "none", agent |-> "none", sess |-> "none",
             turn |-> 0, tool_round |-> 0, llm_calls |-> 0, has_calls |-> FALSE,
             note |-> FALSE, err |-> "none", ret |-> 0, epoch |-> 0,
             len_before |-> 0, dirty |-> FALSE]

Msg(role, turn) == [role |-> role, turn |-> turn]

(* A transcript that earlier turns left behind: user/assistant pairs.      *)
RECURSIVE OldTranscript(_)
OldTranscript(n) ==
    IF n = 0 THEN <<>>
    ELSE OldTranscript(n - 2) \o <<Msg("user", 0), Msg("assistant", 0)>>

InitLens == {0, MAX_CONTEXT_MESSAGES + 2}

(***************************************************************************)
(* TranscriptStore (src/openhoof/core/transcripts.py).                     *)
(***************************************************************************)
IsSystem(m) == m.role = "system"
IsNonSystem(m) == m.role # "system"

(* Python's s[-n:] : the last n elements, and the WHOLE list when n = 0.   *)
PyLast(s, n) ==
    IF n = 0 \/ Len(s) <= n THEN s ELSE SubSeq(s, Len(s) - n + 1, Len(s))

(* TranscriptStore.compact: the new message list.                          *)
CompactMessages(msgs, keep_last) ==
    SelectSeq(msgs, IsSystem) \o PyLast(SelectSeq(msgs, IsNonSystem), keep_last)

(* TranscriptStore.compact rewrites only a transcript longer than keep_last.*)
CompactRewrites(msgs, keep_last) == Len(msgs) > keep_last

(* _auto_compact_if_needed: more than MAX_CONTEXT_MESSAGES non-system.     *)
NeedsCompaction(msgs) == Len(SelectSeq(msgs, IsNonSystem)) > MAX_CONTEXT_MESSAGES

(* A save that also stores the turn's tool-result message.                 *)
SaveTurnWithTool(msgs, turn) ==
    ((msgs \o <<Msg("user", turn)>>) \o <<Msg("tool", turn)>>) \o <<Msg("assistant", turn)>>

(* A save that is cut after its first append_message.                      *)
SaveTurnCut(msgs, turn) == msgs \o <<Msg("user", turn)>>

(* _run_agent_turn, "Save to transcript": two append_message calls with no *)
(* await between them.                                                     *)
SaveTurn(msgs, turn) == (msgs \o <<Msg("user", turn)>>) \o <<Msg("assistant", turn)>>

(***************************************************************************)
(* The tool-call loop of _run_agent_turn.                                  *)
(***************************************************************************)
(* A loop condition that is off by one.                                    *)
RunsToolRoundOffByOne(has_calls, tool_round, max_rounds) ==
    has_calls /\ tool_round <= max_rounds

(* The while condition: another round of tool calls is executed.           *)
RunsToolRound(has_calls, tool_round, max_rounds) ==
    has_calls /\ tool_round < max_rounds

(* The cap note is appended to the final content.                          *)
CapNote(has_calls, tool_round, max_rounds) ==
    tool_round >= max_rounds /\ has_calls

(***************************************************************************)
(* AgentManager (src/openhoof/agents/lifecycle.py).                        *)
(***************************************************************************)
SessionOf(caller) ==
    CASE caller = "heartbeat" -> "heartbeat"
      [] caller = "autonomy" -> "autonomy"
      [] OTHER -> "main"

InFlight(t) == task[t].pc \in {"start_emit", "compact", "llm", "tools"}
InTurn(t) == task[t].pc \in {"compact", "llm", "tools"}

(* A start_agent without the check for a running agent.                   *)
NeverStarted(a) == FALSE

(* start_agent returns the existing handle.                                *)
AlreadyStarted(a) == agents[a] # 0

InitMgr ==
    /\ agents = [a \in Agents |-> 0]
    /\ created = [a \in Agents |-> 0]
    /\ hb_tasks = [a \in Agents |-> {}]
    /\ loop_tasks = [a \in Agents |-> {}]
    /\ ev_started = [a \in Agents |-> 0]
    /\ ev_stopped = [a \in Agents |-> 0]
    /\ ev_message = [a \in Agents |-> 0]
    /\ config \in [max_tool_rounds : {0, 1, MaxToolRounds},
                   heartbeat_enabled : BOOLEAN,
                   autonomy_enabled : BOOLEAN]
    /\ workspace_ok \in BOOLEAN
    /\ task = [t \in Tasks |-> IdleTask]
    /\ \E n \in InitLens :
          transcript = [s \in SessionKinds |->
                           IF s = "main" THEN OldTranscript(n) ELSE <<>>]
    /\ summary = [s \in SessionKinds |-> "none"]
    /\ compaction_count = [s \in SessionKinds |-> 0]
    /\ total_tokens = [s \in SessionKinds |-> 0]
    /\ n_turns = 0

(* The part of start_agent up to its first suspension: the check, the      *)
(* workspace and config load, heartbeat.start(), the construction of hot   *)
(* state, sensors and loop, the registration of the handle,                *)
(* autonomy_loop.start() and the append of agent:started to the history.   *)
RegisterAgent(a) ==
    /\ created' = [created EXCEPT ![a] = @ + 1]
    /\ agents' = [agents EXCEPT ![a] = created[a] + 1]
    /\ hb_tasks' = [hb_tasks EXCEPT ![a] =
                       IF config.heartbeat_enabled THEN @ \cup {created[a] + 1} ELSE @]
    /\ loop_tasks' = [loop_tasks EXCEPT ![a] =
                       IF config.autonomy_enabled THEN @ \cup {created[a] + 1} ELSE @]
    /\ ev_started' = [ev_started EXCEPT ![a] = @ + 1]

(* A new coroutine takes the first free slot; which slot it takes makes    *)
(* no difference to the program.                                           *)
FirstIdle(t) ==
    /\ task[t].pc = "idle"
    /\ \A u \in Tasks : u < t => task[u].pc # "idle"

(* No coroutine has finished without its caller having taken the result:   *)
(* a finished coroutine takes no further part, so its result is collected  *)
(* before the next step of any other.                                      *)
Settled == \A t \in Tasks : task[t].pc \notin {"done", "raised", "cancelled"}

(* _run_agent_turn up to its first suspension: the handle lookup, the      *)
(* session, and either the summary request of the auto-compaction or the   *)
(* first chat_completion.                                                  *)
EnterTurn(t, a, caller) ==
    LET s == SessionOf(caller)
        base == [IdleTask EXCEPT !.caller = caller, !.agent = a, !.sess = s,
                                 !.ret = agents[a], !.epoch = ev_stopped[a]]
    IN  IF agents[a] = 0
        THEN /\ task' = [task EXCEPT ![t] =
                    [base EXCEPT !.pc = "raised", !.err = "not_running"]]
             /\ n_turns' = n_turns
        ELSE /\ task' = [task EXCEPT ![t] =
                    [base EXCEPT !.pc = IF NeedsCompaction(transcript[s])
                                        THEN "compact" ELSE "llm",
                                 !.llm_calls = IF NeedsCompaction(transcript[s])
                                               THEN 0 ELSE 1,
                                 !.turn = n_turns + 1,
                                 !.len_before = Len(transcript[s])]]
             /\ n_turns' = n_turns + 1

(* start_agent(a) called by the API.                                       *)
StartAgent(t, a) ==
    /\ Settled
    /\ NotAStop
    /\ FirstIdle(t)
    /\ IF AlreadyStarted(a)
       THEN /\ task' = [task EXCEPT ![t] =
                   [IdleTask EXCEPT !.pc = "done", !.caller = "start", !.agent = a,
                                    !.ret = agents[a], !.epoch = ev_stopped[a]]]
            /\ UNCHANGED <<agents, created, hb_tasks, loop_tasks, ev_started>>
       ELSE IF ~workspace_ok
       THEN /\ task' = [task EXCEPT ![t] =
                   [IdleTask EXCEPT !.pc = "raised", !.caller = "start", !.agent = a,
                                    !.err = "workspace_not_found"]]
            /\ UNCHANGED <<agents, created, hb_tasks, loop_tasks, ev_started>>
       ELSE /\ RegisterAgent(a)
            /\ task' = [task EXCEPT ![t] =
                   [IdleTask EXCEPT !.pc = "start_emit", !.caller = "start", !.agent = a,
                                    !.ret = created[a] + 1, !.epoch = ev_stopped[a]]]
    /\ UNCHANGED <<ev_stopped, ev_message, config, workspace_ok, transcript, summary,
                   compaction_count, total_tokens, n_turns>>

(* chat(a, message) called by the API: the agent is started when it has no *)
(* handle; with a handle the turn is entered at once.                      *)
Chat(t, a) ==
    /\ Settled
    /\ NotAStop
    /\ FirstIdle(t)
    /\ n_turns < MaxTurns
    /\ IF AlreadyStarted(a)
       THEN /\ UNCHANGED <<agents, created, hb_tasks, loop_tasks, ev_started>>
            /\ EnterTurn(t, a, "chat")
       ELSE IF ~workspace_ok
       THEN /\ task' = [task EXCEPT ![t] =
                   [IdleTask EXCEPT !.pc = "raised", !.caller = "chat", !.agent = a,
                                    !.err = "workspace_not_found"]]
            /\ UNCHANGED <<agents, created, hb_tasks, loop_tasks, ev_started, n_turns>>
       ELSE /\ RegisterAgent(a)
            /\ task' = [task EXCEPT ![t] =
                   [IdleTask EXCEPT !.pc = "start_emit", !.caller = "chat", !.agent = a,
                                    !.ret = created[a] + 1, !.epoch = ev_stopped[a]]]
            /\ UNCHANGED n_turns
    /\ UNCHANGED <<ev_stopped, ev_message, config, workspace_ok, transcript, summary,
                   compaction_count, total_tokens>>

(* event_bus.emit(agent:started) has delivered to its subscribers:         *)
(* start_agent returns the handle, and chat goes on to _run_agent_turn.    *)
StartReturn(t) ==
    /\ Settled
    /\ NotAStop
    /\ task[t].pc = "start_emit"
    /\ UNCHANGED <<agents, created, hb_tasks, loop_tasks, ev_started, ev_stopped,
                   ev_message, config, workspace_ok, transcript, summary, compaction_count,
                   total_tokens>>
    /\ IF task[t].caller = "start"
       THEN /\ task' = [task EXCEPT ![t].pc = "done"]
            /\ UNCHANGED n_turns
       ELSE EnterTurn(t, task[t].agent, "chat")

(* The heartbeat runner or the autonomy loop of a running agent calls      *)
(* _run_agent_turn; each of the two runs one turn at a time.               *)
RunnerTurn(t, a, caller) ==
    /\ Settled
    /\ NotAStop
    /\ FirstIdle(t)
    /\ n_turns < MaxTurns
    /\ caller \in {"heartbeat", "autonomy"}
    /\ agents[a] # 0
    /\ agents[a] \in (IF caller = "heartbeat" THEN hb_tasks[a] ELSE loop_tasks[a])
    /\ \A u \in Tasks : ~(task[u].caller = caller /\ task[u].agent = a /\ task[u].pc # "idle")
    /\ UNCHANGED <<agents, created, hb_tasks, loop_tasks, ev_started, ev_stopped,
                   ev_message, config, workspace_ok, transcript, summary, compaction_count,
                   total_tokens>>
    /\ EnterTurn(t, a, caller)

(* The tasks of the other turns that are working on session s have seen a  *)
(* transcript that has since been rewritten.                               *)
Dirtied(tk, s) ==
    [u \in Tasks |->
        IF tk[u].sess = s /\ tk[u].pc \in {"compact", "llm", "tools"}
        THEN [tk[u] EXCEPT !.dirty = TRUE] ELSE tk[u]]

(* _auto_compact_if_needed after the summary request: the summary of the   *)
(* fast model, or the placeholder when the request failed; then            *)
(* TranscriptStore.compact on the transcript as it is now, and the first   *)
(* chat_completion of the turn.                                            *)
CompactReturn(t, summary_ok) ==
    LET s == task[t].sess
        msgs == transcript[s]
    IN  /\ Settled
        /\ NotAStop
        /\ task[t].pc = "compact"
        /\ IF CompactRewrites(msgs, COMPACT_KEEP_LAST)
           THEN /\ transcript' = [transcript EXCEPT
                                     ![s] = CompactMessages(msgs, COMPACT_KEEP_LAST)]
                /\ summary' = [summary EXCEPT
                                  ![s] = IF summary_ok THEN "llm" ELSE "placeholder"]
                /\ compaction_count' = [compaction_count EXCEPT ![s] = @ + 1]
                /\ task' = [Dirtied(task, s) EXCEPT
                               ![t].pc = "llm", ![t].llm_calls = 1, ![t].dirty = TRUE]
           ELSE /\ task' = [task EXCEPT ![t].pc = "llm", ![t].llm_calls = 1]
                /\ UNCHANGED <<transcript, summary, compaction_count>>
        /\ UNCHANGED <<agents, created, hb_tasks, loop_tasks, ev_started, ev_stopped,
                       ev_message, config, workspace_ok, total_tokens, n_turns>>

(* A chat_completion of the turn returns a response, with or without tool   *)
(* calls: the tool-call loop runs another round, or the turn is saved      *)
(* (final content, the two transcript messages, the session's tokens,      *)
(* agent:message) and returns.                                             *)
LLMReturn(t, has_calls, tokens) ==
    LET s == task[t].sess
        max_rounds == config.max_tool_rounds
    IN  /\ Settled
        /\ NotAStop
        /\ task[t].pc = "llm"
        /\ IF RunsToolRound(has_calls, task[t].tool_round, max_rounds)
           THEN /\ task' = [task EXCEPT ![t].pc = "tools",
                                        ![t].tool_round = @ + 1,
                                        ![t].has_calls = has_calls]
                /\ UNCHANGED <<transcript, total_tokens, ev_message>>
           ELSE /\ transcript' = [transcript EXCEPT
                                     ![s] = SaveTurn(transcript[s], task[t].turn)]
                /\ total_tokens' = [total_tokens EXCEPT ![s] = @ + tokens]
                /\ ev_message' = [ev_message EXCEPT ![task[t].agent] = @ + 1]
                /\ task' = [Dirtied(task, s) EXCEPT
                               ![t].pc = "done",
                               ![t].dirty = task[t].dirty,
                               ![t].has_calls = has_calls,
                               ![t].note = CapNote(has_calls, task[t].tool_round,
                                                   max_rounds)]
        /\ UNCHANGED <<agents, created, hb_tasks, loop_tasks, ev_started, ev_stopped,
                       config, workspace_ok, summary, compaction_count, n_turns>>

(* A chat_completion of the turn raises (backend unreachable, non-200):    *)
(* _run_agent_turn has no handler, the exception leaves the turn.          *)
LLMRaise(t) ==
    /\ Settled
    /\ NotAStop
    /\ task[t].pc = "llm"
    /\ task' = [task EXCEPT ![t].pc = "raised", ![t].err = "llm"]
    /\ UNCHANGED <<agents, created, hb_tasks, loop_tasks, ev_started, ev_stopped,
                   ev_message, config, workspace_ok, transcript, summary,
                   compaction_count, total_tokens, n_turns>>

(* The tool calls of one round have been executed (a failing tool gives a  *)
(* failed ToolResult, never an exception); the next chat_completion.       *)
ToolsDone(t) ==
    /\ Settled
    /\ NotAStop
    /\ task[t].pc = "tools"
    /\ task' = [task EXCEPT ![t].pc = "llm", ![t].llm_calls = @ + 1]
    /\ UNCHANGED <<agents, created, hb_tasks, loop_tasks, ev_started, ev_stopped,
                   ev_message, config, workspace_ok, transcript, summary,
                   compaction_count, total_tokens, n_turns>>

(* The caller has its result (or exception); the coroutine is gone.        *)
TaskReturn(t) ==
    /\ task[t].pc \in {"done", "raised", "cancelled"}
    /\ NotAStop
    /\ task' = [task EXCEPT ![t] = IdleTask]
    /\ UNCHANGED <<agents, created, hb_tasks, loop_tasks, ev_started, ev_stopped,
                   ev_message, config, workspace_ok, transcript, summary,
                   compaction_count, total_tokens, n_turns>>

(* A stop_agent that also cancels the sub-agent runs of the agent that    *)
(* are in flight.                                                          *)
StopAgentCancelsRuns(a) ==
    /\ Settled
    /\ ev_stopped[a] < MaxStops
    /\ agents[a] # 0
    /\ agents' = [agents EXCEPT ![a] = 0]
    /\ ev_stopped' = [ev_stopped EXCEPT ![a] = @ + 1]
    /\ runs' = [r \in DOMAIN runs |->
                   IF runs[r].agent = a /\ runs[r].state \in {"registered", "running"}
                   THEN [runs[r] EXCEPT !.state = "ended", !.outcome = "cancelled"]
                   ELSE runs[r]]
    /\ sub_tasks' = {r \in sub_tasks : runs[r].agent # a}
    /\ UNCHANGED <<loop_vars, stop_vars, hot_vars, sensor_vars, nap_vars, parse_vars,
                   bus_vars, store_vars, memory_vars, registry_vars, turn_vars, score_vars,
                   yield_vars, created,
                   hb_tasks, loop_tasks, ev_started,
                   ev_message, config, workspace_ok, task, transcript, summary,
                   compaction_count, total_tokens, n_turns, clock, saved_runs, sub_events,
                   ticks>>

(* A lookup that always finds a handle.                                    *)
NoHandleNever(a) == FALSE

(* stop_agent: handle = self._agents.get(agent_id); if not handle.         *)
NoHandle(a) == agents[a] = 0

(* What stop_agent does to a handle, in the order of its statements:       *)
(* AutonomyLoop.stop() cancels the loop task and then stops each sensor,   *)
(* heartbeat.stop(), the handle is deleted, agent:stopped is emitted.      *)
StopSteps(cfg) ==
    (IF cfg.autonomy_enabled THEN <<"loop", "sensors">> ELSE <<>>)
    \o (IF cfg.heartbeat_enabled THEN <<"heartbeat">> ELSE <<>>)
    \o <<"handle", "agent:stopped">>

(* stop_agent(a): without a handle it returns False; with one,             *)
(* autonomy_loop.stop() (the loop task and the sensors are cancelled),     *)
(* heartbeat.stop(), the handle is removed, agent:stopped, and it returns  *)
(* True. A turn that the cancelled loop or heartbeat was awaiting is       *)
(* cancelled with it; a chat turn is not.                                  *)
StopAgent(a) ==
    /\ Settled
    /\ UNCHANGED not_stop
    /\ IF NoHandle(a)
       THEN /\ stop_returned' = [stop_returned EXCEPT ![a] = "false"]
            /\ UNCHANGED <<agents, hb_tasks, loop_tasks, ev_stopped, task, stop_log>>
       ELSE /\ ev_stopped[a] < MaxStops
            /\ loop_tasks' = [loop_tasks EXCEPT ![a] = @ \ {agents[a]}]
            /\ hb_tasks' = [hb_tasks EXCEPT ![a] = @ \ {agents[a]}]
            /\ agents' = [agents EXCEPT ![a] = 0]
            /\ ev_stopped' = [ev_stopped EXCEPT ![a] = @ + 1]
            /\ task' = [u \in Tasks |->
                   IF /\ task[u].agent = a
                      /\ task[u].caller \in {"heartbeat", "autonomy"}
                      /\ task[u].pc \in {"compact", "llm", "tools"}
                   THEN [task[u] EXCEPT !.pc = "cancelled"] ELSE task[u]]
            /\ stop_returned' = [stop_returned EXCEPT ![a] = "true"]
            /\ stop_log' = [stop_log EXCEPT ![a] = StopSteps(config)]
    /\ UNCHANGED <<created, ev_started, ev_message, config, workspace_ok, transcript,
                   summary, compaction_count, total_tokens, n_turns>>

(***************************************************************************)
(* AutonomyLoop (src/openhoof/agents/autonomy_loop.py): one loop object.   *)
(***************************************************************************)
MaxIters == 3

HOUR_SECONDS == 3600
DEFAULT_FORCED_SLEEP == 60
ERROR_PAUSE == 5
PRECHECK_SLEEP == 10
ACTIVE_HOURS_POLL == 300
DEFAULT_SLEEP == 30
IDLE_TIMEOUT == 600

Guardrails == {"active_hours", "token_budget", "idle_timeout", "max_consecutive_turns"}

(* What the final text of a turn can be, by the parts the loop reads: the   *)
(* phrase "shutting down" and the phrase "sleeping for" as they are        *)
(* written ("" when the text has none), the <N> of "<N>s" after the        *)
(* latter (-1 when there is none), the names of "(wake early on: ...)"     *)
(* as they are written (none when there is no such clause), and the words  *)
(* _response_had_tool_calls looks for.                                     *)
NoPhrase == ""

Text(shutting, sleeping, secs, wake, indicator) ==
    [shutting |-> shutting, sleeping |-> sleeping, secs |-> secs, wake |-> wake,
     indicator |-> indicator]

Responses ==
    { Text(NoPhrase, NoPhrase, -1, <<>>, FALSE),
      Text(NoPhrase, NoPhrase, -1, <<>>, TRUE),
      Text(NoPhrase, "Sleeping for", -1, <<>>, FALSE),
      Text(NoPhrase, "Sleeping for", 900, <<>>, FALSE),
      Text("Shutting down", NoPhrase, -1, <<>>, FALSE) }

(* str.lower() on the words that occur in the texts.                       *)
Lower(w) ==
    CASE w = "Shutting down" -> "shutting down"
      [] w = "Sleeping for" -> "sleeping for"
      [] w = "Alert" -> "alert"
      [] OTHER -> w

(* total_tokens of the response that ends a turn.                          *)
TurnTokens == {0, 150}
TokenBudgets == {0, 100}
Durations == {1}

Max(x, y) == IF x >= y THEN x ELSE y

(* "[s.strip() for s in wake_match.group(1).split(',')]" on the text in    *)
(* lower case.                                                             *)
WakeNames(r) == [i \in 1..Len(r.wake) |-> Lower(r.wake[i])]

(* _parse_yield_from_response.                                             *)
ParseYield(r) ==
    IF Lower(r.shutting) = "shutting down"
    THEN [mode |-> "shutdown", sleep |-> 0, wake_early_if |-> <<>>]
    ELSE IF Lower(r.sleeping) = "sleeping for"
         THEN [mode |-> "sleep",
               sleep |-> IF r.secs >= 0 THEN r.secs ELSE DEFAULT_SLEEP,
               wake_early_if |-> WakeNames(r)]
         ELSE [mode |-> "continue", sleep |-> 0, wake_early_if |-> <<>>]

(* _maybe_reset_hour.                                                      *)
MaybeResetHour(l, t) ==
    IF t - l.hour_start >= HOUR_SECONDS
    THEN [l EXCEPT !.tokens_this_hour = 0, !.hour_start = t]
    ELSE l

(* _seconds_until_next_hour.                                               *)
SecondsUntilNextHour(l, t) == Max(1, HOUR_SECONDS - (t - l.hour_start))

(* A budget gate that lets a turn through at the budget itself.            *)
OverBudgetStrict(l) == l.tokens_this_hour > lcfg.token_budget_per_hour

(* The token gate of _loop.                                                *)
OverBudget(l) == l.tokens_this_hour >= lcfg.token_budget_per_hour

(* AutonomyLoop.stop(): the task and the sensors are cancelled.            *)
Stopped(l) == [l EXCEPT !.pc = "stopped", !.stopped = TRUE, !.sensors_on = FALSE]

(* The loop waits in an asyncio.sleep: the turns before it and after it    *)
(* are not back to back.                                                   *)
Sleeping(l, t, seconds) ==
    [l EXCEPT !.pc = "sleep", !.wake_at = t + seconds, !.streak = 0]

(* A guardrail that never finds the consecutive turns at their limit.      *)
AtMaxTurnsNever(l) == FALSE

(* "if self._consecutive_turns >= self.config.max_consecutive_turns".      *)
AtMaxTurns(l) == l.consecutive_turns >= lcfg.max_consecutive_turns

(* _run_turn from "3. Auto-refresh" to the await of _run_agent_turn:       *)
(* autonomy:turn_started, the notifications are popped, the snapshot time  *)
(* is taken.                                                               *)
BeginTurn(l) ==
    [loop |-> [l EXCEPT !.pc = "turn"], emits |-> <<"turn_started">>, began |-> TRUE]

(* The reason of an autonomy:precheck_skipped event.                       *)
SkipReasons == {"no_changes", "no_material_changes"}

(* A pre-check gate that finds a change in every diff.                     *)
NoChangesNever == FALSE

(* "if not diff" in _run_turn, diff being diff_since(_last_snapshot_time). *)
NoChanges == ~hs_changed

(* One pass of _loop from the top of the while to its first suspension, at *)
(* time t; inside: the wall clock is within the active hours.              *)
(* A loop that never finds itself idle.                                    *)
IdleNever(l, t) == FALSE

(* "idle_seconds = time.time() - self._last_meaningful_action;             *)
(* if idle_seconds > self.config.idle_timeout".                            *)
IdleTooLong(l, t) == t - l.last_meaningful_action > lcfg.idle_timeout

(* A handler that ends the loop on an exception.                           *)
AfterErrorEnds(l, t) == [Stopped(l) EXCEPT !.errors = @ + 1]

(* "except Exception as e: logger.error(...); await asyncio.sleep(5)".     *)
AfterError(l, t) == [Sleeping(l, t, ERROR_PAUSE) EXCEPT !.errors = @ + 1]

Iterate(l0, t, inside) ==
    LET l == [l0 EXCEPT !.iters = @ + 1]
        lr == MaybeResetHour(l, t)
        lt == [lr EXCEPT !.turn_count = @ + 1]
    IN  IF lcfg.active_hours /\ ~inside
        THEN [loop |-> Sleeping(l, t, ACTIVE_HOURS_POLL),
              emits |-> <<"active_hours">>, began |-> FALSE]
        ELSE IF OverBudget(lr)
        THEN [loop |-> Sleeping(lr, t, SecondsUntilNextHour(lr, t)),
              emits |-> <<"token_budget">>, began |-> FALSE]
        ELSE IF IdleTooLong(lr, t)
        THEN [loop |-> Stopped(lr), emits |-> <<"idle_timeout">>, began |-> FALSE]
        ELSE IF ~hs_notifs /\ lcfg.precheck_model
        THEN IF NoChanges
             THEN [loop |-> Sleeping([lt EXCEPT !.consecutive_turns = 0], t, PRECHECK_SLEEP),
                   emits |-> <<"no_changes">>, began |-> FALSE]
             ELSE [loop |-> [lt EXCEPT !.pc = "precheck"], emits |-> <<>>, began |-> FALSE]
        ELSE BeginTurn(lt)

Count(emits, e) == Cardinality({i \in DOMAIN emits : emits[i] = e})

(* The loop goes on as res says: the events are emitted, and a turn that   *)
(* begins takes the notifications and the snapshot.                        *)
Proceed(res) ==
    /\ loop' = res.loop
    /\ ev_guardrail' = [g \in Guardrails |-> ev_guardrail[g] + Count(res.emits, g)]
    /\ ev_turn_started' = ev_turn_started + Count(res.emits, "turn_started")
    /\ ev_turn_completed' = ev_turn_completed + Count(res.emits, "turn_completed")
    /\ ev_precheck_skipped' = [r \in SkipReasons |->
                                  ev_precheck_skipped[r] + Count(res.emits, r)]
    /\ hs_notifs' = IF res.began THEN FALSE ELSE hs_notifs
    /\ hs_changed' = IF res.began THEN FALSE ELSE hs_changed

InitLoop ==
    /\ now = 0
    /\ lcfg \in [token_budget_per_hour : TokenBudgets,
                 idle_timeout : {IDLE_TIMEOUT},
                 max_consecutive_turns : {2},
                 precheck_model : BOOLEAN,
                 active_hours : BOOLEAN]
    /\ loop = [pc |-> "off", stopped |-> FALSE, sensors_on |-> FALSE,
               turn_count |-> 0, consecutive_turns |-> 0,
               tokens_this_hour |-> 0, hour_start |-> 0,
               last_meaningful_action |-> 0, wake_at |-> 0, iters |-> 0,
               streak |-> 0, errors |-> 0, last_yield |-> "none"]
    /\ hs_notifs = FALSE
    /\ hs_changed = FALSE
    /\ ev_guardrail = [g \in Guardrails |-> 0]
    /\ ev_turn_started = 0
    /\ ev_turn_completed = 0
    /\ ev_precheck_skipped = [r \in SkipReasons |-> 0]
    /\ reported_this_hour = 0

(* The hour counter was reset in this step: the tokens reported count for  *)
(* the new hour.                                                           *)
ReportedAfter(reported, l_old, l_new) ==
    IF l_new.hour_start # l_old.hour_start THEN 0 ELSE reported

(* AutonomyLoop.start(): the sensors are started and the task is created.  *)
LoopStart ==
    /\ loop.pc = "off"
    /\ UNCHANGED not_loop
    /\ loop' = [loop EXCEPT !.pc = "scheduled", !.stopped = FALSE, !.sensors_on = TRUE,
                            !.last_meaningful_action = now]
    /\ UNCHANGED <<now, lcfg, hs_notifs, hs_changed, ev_guardrail, ev_turn_started,
                   ev_turn_completed, ev_precheck_skipped, reported_this_hour>>

(* The task of _loop runs for the first time.                              *)
LoopBegin(inside) ==
    /\ loop.pc = "scheduled"
    /\ UNCHANGED not_loop
    /\ loop.iters < MaxIters
    /\ Proceed(Iterate(loop, now, inside))
    /\ reported_this_hour' = ReportedAfter(reported_this_hour, loop, loop')
    /\ UNCHANGED <<now, lcfg>>

(* An asyncio.sleep of the loop ends; every sleep of _loop is followed by  *)
(* the next iteration.                                                     *)
LoopWake(inside) ==
    /\ loop.pc = "sleep"
    /\ UNCHANGED not_loop
    /\ loop.iters < MaxIters
    /\ now' = Max(now, loop.wake_at)
    /\ Proceed(Iterate(loop, now', inside))
    /\ reported_this_hour' = ReportedAfter(reported_this_hour, loop, loop')
    /\ UNCHANGED lcfg

(* _run_precheck returns: YES, or a failure, lets the turn begin; NO skips *)
(* it.                                                                     *)
PrecheckReturn(answer, d) ==
    /\ loop.pc = "precheck"
    /\ UNCHANGED not_loop
    /\ answer \in {"yes", "no", "raise"}
    /\ now' = now + d
    /\ IF answer = "no"
       THEN Proceed([loop |-> Sleeping([loop EXCEPT !.consecutive_turns = 0],
                                       now', PRECHECK_SLEEP),
                     emits |-> <<"no_material_changes">>, began |-> FALSE])
       ELSE Proceed(BeginTurn(loop))
    /\ UNCHANGED <<lcfg, reported_this_hour>>

(* _run_agent_turn returns the final text r; the response that ended the   *)
(* turn reported tokens total_tokens (added to the session by the          *)
(* manager). The loop parses the yield, tracks a meaningful action, emits  *)
(* autonomy:turn_completed and acts on the yield.                          *)
TurnReturn(r, tokens, d, inside) ==
    LET y == ParseYield(r)
        t == now + d
        l0 == [loop EXCEPT !.last_yield = y.mode]
        l1 == IF r.indicator THEN [l0 EXCEPT !.last_meaningful_action = t] ELSE l0
        l2 == [l1 EXCEPT !.consecutive_turns = @ + 1, !.streak = @ + 1]
        done == <<"turn_completed">>
        next == Iterate(l2, t, inside)
    IN  /\ loop.pc = "turn"
        /\ UNCHANGED not_loop
        /\ y.mode = "continue" => loop.iters < MaxIters
        /\ now' = t
        /\ IF y.mode = "shutdown"
           THEN Proceed([loop |-> Stopped(l1), emits |-> done, began |-> FALSE])
           ELSE IF y.mode = "sleep"
           THEN Proceed([loop |-> Sleeping([l1 EXCEPT !.consecutive_turns = 0], t, y.sleep),
                         emits |-> done, began |-> FALSE])
           ELSE IF AtMaxTurns(l2)
           THEN Proceed([loop |-> Sleeping([l2 EXCEPT !.consecutive_turns = 0], t,
                                           DEFAULT_FORCED_SLEEP),
                         emits |-> done \o <<"max_consecutive_turns">>, began |-> FALSE])
           ELSE Proceed([next EXCEPT !.emits = done \o @])
        /\ reported_this_hour' = ReportedAfter(reported_this_hour + tokens, loop, loop')
        /\ UNCHANGED lcfg

(* _run_agent_turn raises (the LLM backend failed): the handler of _loop   *)
(* logs and pauses.                                                        *)
TurnRaise(d) ==
    /\ loop.pc = "turn"
    /\ UNCHANGED not_loop
    /\ now' = now + d
    /\ loop' = AfterError(loop, now')
    /\ UNCHANGED <<lcfg, hs_notifs, hs_changed, ev_guardrail, ev_turn_started,
                   ev_turn_completed, ev_precheck_skipped, reported_this_hour>>

(* stop() called from stop_agent.                                          *)
LoopStop ==
    /\ loop.pc \notin {"off", "stopped"}
    /\ UNCHANGED not_loop
    /\ loop' = Stopped(loop)
    /\ UNCHANGED <<now, lcfg, hs_notifs, hs_changed, ev_guardrail, ev_turn_started,
                   ev_turn_completed, ev_precheck_skipped, reported_this_hour>>

(* A sensor of the agent writes a hot-state field.                         *)
SensorWrite ==
    /\ loop.sensors_on
    /\ UNCHANGED not_loop
    /\ ~hs_changed
    /\ hs_changed' = TRUE
    /\ UNCHANGED <<now, loop, lcfg, hs_notifs, ev_guardrail, ev_turn_started,
                   ev_turn_completed, ev_precheck_skipped, reported_this_hour>>

(* A signal of a sensor pushes a notification.                             *)
SensorNotify ==
    /\ loop.sensors_on
    /\ UNCHANGED not_loop
    /\ ~hs_notifs
    /\ hs_notifs' = TRUE
    /\ UNCHANGED <<now, loop, lcfg, hs_changed, ev_guardrail, ev_turn_started,
                   ev_turn_completed, ev_precheck_skipped, reported_this_hour>>

NextLoop ==
    \/ LoopStart
    \/ \E inside \in BOOLEAN : LoopBegin(inside)
    \/ \E inside \in BOOLEAN : LoopWake(inside)
    \/ \E answer \in {"yes", "no", "raise"}, d \in Durations : PrecheckReturn(answer, d)
    \/ \E r \in Responses, k \in TurnTokens, d \in Durations, inside \in BOOLEAN :
          TurnReturn(r, k, d, inside)
    \/ \E d \in Durations : TurnRaise(d)
    \/ LoopStop
    \/ SensorWrite
    \/ SensorNotify

(***************************************************************************)
(* SubagentRegistry (src/openhoof/agents/subagents.py) and the spawn path  *)
(* of the manager.                                                         *)
(***************************************************************************)
MaxRuns == 1
MaxTicks == 1

DEFAULT_TIMEOUT_SECONDS == 300

RunIds == 1..MaxRuns

(* timeout_seconds as the spawn_agent call gives it: absent (-1 here), 0,  *)
(* or a number of seconds.                                                 *)
Requested == {-1, 0, 2}

NoRun == [state |-> "none", requested |-> -1, timeout |-> 0, started_at |-> -1,
          ended_at |-> -1, outcome |-> "none", error |-> FALSE, result |-> FALSE,
          agent |-> "none"]

(* A spawn that takes the requested number as it is.                       *)
TimeoutAsRequested(req) == IF req < 0 THEN DEFAULT_TIMEOUT_SECONDS ELSE req

(* SpawnAgentTool.execute: params.get("timeout_seconds", 300); then        *)
(* SubagentRegistry.spawn: timeout_seconds or self.default_timeout_seconds.*)
EffectiveTimeout(req) ==
    LET param == IF req < 0 THEN DEFAULT_TIMEOUT_SECONDS ELSE req
    IN  IF param = 0 THEN DEFAULT_TIMEOUT_SECONDS ELSE param

NextRunId == Cardinality({r \in RunIds : runs[r].state # "none"}) + 1

Deadline(r) == runs[r].started_at + runs[r].timeout

SubEvent(type, r, success) == [type |-> type, run |-> r, success |-> success]

InitSub ==
    /\ clock = 0
    /\ runs = [r \in RunIds |-> NoRun]
    /\ sub_tasks = {}
    /\ saved_runs = [r \in RunIds |-> NoRun]
    /\ sub_events = <<>>
    /\ ticks = 0

(* The tool round of a turn whose calls include spawn_agent: the tool      *)
(* calls _handle_spawn_request, which registers and saves the run, creates *)
(* its task and emits subagent:spawned; the tool result goes back to the   *)
(* turn, which asks the model again.                                       *)
SpawnTool(t, req) ==
    LET r == NextRunId
        run == [NoRun EXCEPT !.state = "registered", !.requested = req,
                             !.timeout = EffectiveTimeout(req),
                             !.agent = task[t].agent]
    IN  /\ Settled
        /\ UNCHANGED not_sub
        /\ task[t].pc = "tools"
        /\ r \in RunIds
        /\ runs' = [runs EXCEPT ![r] = run]
        /\ saved_runs' = runs'
        /\ sub_tasks' = sub_tasks \cup {r}
        /\ sub_events' = Append(sub_events, SubEvent("spawned", r, TRUE))
        /\ task' = [task EXCEPT ![t].pc = "llm", ![t].llm_calls = @ + 1]
        /\ UNCHANGED <<agents, created, hb_tasks, loop_tasks, ev_started, ev_stopped,
                       ev_message, config, workspace_ok, transcript, summary,
                       compaction_count, total_tokens, n_turns, clock, ticks>>

(* The task of _execute_run starts: started_at, _save(), and _run_subagent *)
(* under wait_for; the agent is started when it has no handle, and the     *)
(* child's turn begins.                                                    *)
ExecuteRun(r) ==
    /\ Settled
    /\ UNCHANGED not_sub
    /\ runs[r].state = "registered"
    /\ runs' = [runs EXCEPT ![r].state = "running", ![r].started_at = clock]
    /\ saved_runs' = runs'
    /\ IF AlreadyStarted(runs[r].agent)
       THEN UNCHANGED <<agents, created, hb_tasks, loop_tasks, ev_started>>
       ELSE RegisterAgent(runs[r].agent)
    /\ UNCHANGED <<ev_stopped, ev_message, config, workspace_ok, task, transcript, summary,
                   compaction_count, total_tokens, n_turns, clock, sub_tasks, sub_events,
                   ticks>>

(* How _execute_run ends a run: ended_at, the outcome with its result or   *)
(* error, _save(), and the task reference is dropped.                      *)
EndRun(r, outcome) ==
    /\ runs' = [runs EXCEPT ![r].state = "ended", ![r].ended_at = clock,
                            ![r].outcome = outcome,
                            ![r].result = (outcome = "completed"),
                            ![r].error = (outcome # "completed")]
    /\ saved_runs' = runs'
    /\ sub_tasks' = sub_tasks \ {r}

(* The child's turn returns: _run_subagent emits subagent:completed with   *)
(* success True and returns the text; the run is completed.                *)
ChildReturn(r) ==
    /\ Settled
    /\ UNCHANGED not_sub
    /\ runs[r].state = "running"
    /\ EndRun(r, "completed")
    /\ sub_events' = Append(sub_events, SubEvent("completed", r, TRUE))
    /\ UNCHANGED <<mgr_vars, clock, ticks>>

(* The child's turn, or the start of its agent, raises: the exception      *)
(* leaves _run_subagent before its emit; the run is failed.                *)
ChildRaise(r) ==
    /\ Settled
    /\ UNCHANGED not_sub
    /\ runs[r].state = "running"
    /\ EndRun(r, "failed")
    /\ UNCHANGED <<mgr_vars, clock, ticks, sub_events>>

(* The timer of wait_for fires: _run_subagent is cancelled where it waits, *)
(* and the run is timed out.                                               *)
RunTimeout(r) ==
    /\ Settled
    /\ UNCHANGED not_sub
    /\ runs[r].state = "running"
    /\ clock >= Deadline(r)
    /\ EndRun(r, "timeout")
    /\ UNCHANGED <<mgr_vars, clock, ticks, sub_events>>

(* The next timers of the runs in flight.                                  *)
Jumps == {1} \cup {Deadline(r) - clock : r \in {x \in RunIds : runs[x].state = "running"}}

(* Time passes, by a second or up to the next timer; a timer that is due   *)
(* fires before more time passes.                                          *)
TimePasses ==
    /\ Settled
    /\ UNCHANGED not_sub
    /\ ticks < MaxTicks
    /\ \E d \in Jumps :
          /\ d >= 1
          /\ \A r \in RunIds : runs[r].state = "running" => clock + d <= Deadline(r)
          /\ clock' = clock + d
    /\ ticks' = ticks + 1
    /\ UNCHANGED <<mgr_vars, runs, sub_tasks, saved_runs, sub_events>>

(* The process ends while no turn is under way and a new one constructs    *)
(* the manager: the tasks of the runs end with the event loop, no agent    *)
(* has a handle, and SubagentRegistry.__init__ calls _load, which makes    *)
(* one SubagentRun of every run in subagent_runs.json, with the fields it  *)
(* was saved with, and creates no task.                                    *)
Load(saved) ==
    [r \in RunIds |-> IF saved[r].state \in {"registered", "running"}
                      THEN [saved[r] EXCEPT !.state = "loaded"]
                      ELSE saved[r]]

Restart ==
    /\ \A t \in Tasks : task[t].pc = "idle"
    /\ UNCHANGED not_sub
    /\ runs' = Load(saved_runs)
    /\ sub_tasks' = {}
    /\ agents' = [a \in Agents |-> 0]
    /\ hb_tasks' = [a \in Agents |-> {}]
    /\ loop_tasks' = [a \in Agents |-> {}]
    /\ UNCHANGED <<created, ev_started, ev_stopped, ev_message, config, workspace_ok, task,
                   transcript, summary, compaction_count, total_tokens, n_turns, clock,
                   saved_runs, sub_events, ticks>>

(* One conversation whose turns spawn sub-agent runs, the runs, and        *)
(* stop_agent.                                                             *)
NextSub ==
    \/ \E a \in Agents : Chat(1, a)
    \/ \E t \in Tasks : StartReturn(t)
    \/ \E t \in Tasks, has_calls \in BOOLEAN : LLMReturn(t, has_calls, 1)
    \/ \E t \in Tasks : TaskReturn(t)
    \/ \E a \in Agents : StopAgent(a)
    \/ \E t \in Tasks, req \in Requested : SpawnTool(t, req)
    \/ \E r \in RunIds : ExecuteRun(r)
    \/ \E r \in RunIds : ChildReturn(r)
    \/ \E r \in RunIds : ChildRaise(r)
    \/ \E r \in RunIds : RunTimeout(r)
    \/ TimePasses

(* The same, in a process that can end and be started again.               *)
NextRuns ==
    \/ NextSub
    \/ Restart

(***************************************************************************)
(* HotState (src/openhoof/core/hot_state.py).                              *)
(***************************************************************************)
MaxOps == 3
MaxHotClock == 4
MaxQueue == 1

(* The names a caller may use: two are in the schema, "ghost" is not.      *)
FieldNames == {"items", "data", "ghost"}
NotificationNames == {"alert", "Alert", "noise"}

(* The lengths of the lists that set is given.                             *)
ListLens == {0, 1, 3}

(* ttl and max_items of a field; -1 stands for None.                       *)
HotConfigs ==
    [items : [type : {"array"}, ttl : {-1, 0, 2}, max_items : {-1, 0, 2}],
     data : [type : {"object"}, ttl : {2}, max_items : {2}]]

NoValue == [kind |-> "none", list |-> <<>>]
Scalar == [kind |-> "scalar", list |-> <<>>]
ListValue(l) == [kind |-> "list", list |-> l]

(* k new elements, numbered on from the n supplied before.                 *)
Fresh(n, k) == [i \in 1..k |-> n + i]

(* Python's truth value of an Optional[int]: None and 0 are false.         *)
Truthy(x) == x # -1 /\ x # 0

(* "f.config.max_items and ..." in set and append.                         *)
HasMaxItems(cfg) == Truthy(cfg.max_items)

(* append that takes a field of any type for an array.                     *)
IsArrayAny(cfg) == TRUE

(* "f.config.type != 'array'" in append, negated.                          *)
IsArray(cfg) == cfg.type = "array"

(* HotState.set on a field of the schema: the value that is stored.        *)
SetValue(cfg, v) ==
    IF cfg.type = "array" /\ HasMaxItems(cfg) /\ v.kind = "list"
          /\ Len(v.list) > cfg.max_items
    THEN ListValue(PyLast(v.list, cfg.max_items))
    ELSE v

(* HotState.append on an array field that holds a list or nothing: the     *)
(* value that is stored.                                                   *)
AppendValue(cfg, v, item) ==
    LET l == (IF v.kind = "none" THEN <<>> ELSE v.list) \o <<item>>
    IN  IF HasMaxItems(cfg) /\ Len(l) > cfg.max_items
        THEN ListValue(PyLast(l, cfg.max_items))
        ELSE ListValue(l)

(* HotState.is_stale.                                                      *)
IsStale(name) ==
    IF name \notin DOMAIN hs_fields THEN FALSE
    ELSE IF hs_fields[name].cfg.ttl = -1 THEN FALSE
    ELSE IF hs_fields[name].updated_at = -1 THEN TRUE
    ELSE hs_now - hs_fields[name].updated_at > hs_fields[name].cfg.ttl

(* HotState.render: the line of a loaded field carries "(stale: ...)".     *)
RenderStale(name) ==
    /\ name \in DOMAIN hs_fields
    /\ hs_fields[name].value.kind # "none"
    /\ Truthy(hs_fields[name].cfg.ttl)
    /\ Truthy(hs_fields[name].updated_at)
    /\ hs_now - hs_fields[name].updated_at > hs_fields[name].cfg.ttl

InitHot ==
    /\ hs_now = 1
    /\ \E c \in HotConfigs :
          hs_fields = [n \in {"items", "data"} |->
                          [cfg |-> c[n], value |-> NoValue, updated_at |-> -1]]
    /\ hs_queue = <<>>
    /\ hs_last = [n |-> 0, op |-> "none", name |-> "none", ok |-> "none", supplied |-> 0]
    /\ hs_supplied = [n \in {"items", "data"} |-> <<>>]

(* set(name, v), v a list of k new elements or a scalar.                   *)
HotSet(name, k, scalar) ==
    LET v == IF scalar THEN Scalar ELSE ListValue(Fresh(hs_last.supplied, k))
        given == IF scalar THEN 0 ELSE k
        last == [hs_last EXCEPT !.n = @ + 1, !.op = "set", !.name = name]
    IN  /\ UNCHANGED not_hot
        /\ hs_last.n < MaxOps
        /\ scalar => k = 0
        /\ IF name \notin DOMAIN hs_fields
           THEN /\ hs_last' = [last EXCEPT !.ok = "false"]
                /\ UNCHANGED <<hs_fields, hs_supplied>>
           ELSE /\ hs_fields' = [hs_fields EXCEPT
                                    ![name].value = SetValue(hs_fields[name].cfg, v),
                                    ![name].updated_at = hs_now]
                /\ hs_supplied' = [hs_supplied EXCEPT ![name] = v.list]
                /\ hs_last' = [last EXCEPT !.ok = "true", !.supplied = @ + given]
        /\ UNCHANGED <<hs_now, hs_queue>>

(* append(name, item), item a new element; on an array field that holds a  *)
(* scalar, list.append does not exist and the call raises.                 *)
HotAppend(name) ==
    LET item == hs_last.supplied + 1
        last == [hs_last EXCEPT !.n = @ + 1, !.op = "append", !.name = name]
    IN  /\ UNCHANGED not_hot
        /\ hs_last.n < MaxOps
        /\ IF name \notin DOMAIN hs_fields
           THEN /\ hs_last' = [last EXCEPT !.ok = "false"]
                /\ UNCHANGED <<hs_fields, hs_supplied>>
           ELSE IF ~IsArray(hs_fields[name].cfg)
           THEN /\ hs_last' = [last EXCEPT !.ok = "false"]
                /\ UNCHANGED <<hs_fields, hs_supplied>>
           ELSE IF hs_fields[name].value.kind = "scalar"
           THEN /\ hs_last' = [last EXCEPT !.ok = "raised"]
                /\ UNCHANGED <<hs_fields, hs_supplied>>
           ELSE /\ hs_fields' = [hs_fields EXCEPT
                                    ![name].value = AppendValue(hs_fields[name].cfg,
                                                                hs_fields[name].value, item),
                                    ![name].updated_at = hs_now]
                /\ hs_supplied' = [hs_supplied EXCEPT ![name] = Append(@, item)]
                /\ hs_last' = [last EXCEPT !.ok = "true", !.supplied = @ + 1]
        /\ UNCHANGED <<hs_now, hs_queue>>

(* push_notification(name, data).                                          *)
HotPush(name) ==
    /\ UNCHANGED not_hot
    /\ Len(hs_queue) < MaxQueue
    /\ hs_queue' = Append(hs_queue, name)
    /\ UNCHANGED <<hs_now, hs_fields, hs_last, hs_supplied>>

(* A second passes.                                                        *)
HotTick ==
    /\ UNCHANGED not_hot
    /\ hs_now < MaxHotClock
    /\ hs_now' = hs_now + 1
    /\ UNCHANGED <<hs_fields, hs_queue, hs_last, hs_supplied>>

NextHot ==
    \/ \E name \in FieldNames, k \in ListLens, scalar \in BOOLEAN : HotSet(name, k, scalar)
    \/ \E name \in FieldNames : HotAppend(name)
    \/ \E name \in {"alert"} : HotPush(name)
    \/ HotTick

(***************************************************************************)
(* One PollSensor with one signal (src/openhoof/core/sensors.py).          *)
(***************************************************************************)
MaxSensorIters == 5
MAX_BACKOFF == 300
THRESHOLD == 8

(* interval of the poll sensor, in seconds.                                *)
Intervals == {5, 100, 600}

(* cooldown of the signal, in seconds; -1 stands for None.                 *)
Cooldowns == {-1, 0, 150}

(* What _parse_score makes of the model's answer, in tenths; -1 stands for *)
(* None.                                                                   *)
Scores == {-1, 5, 8}

(* How long the signal's model call takes.                                 *)
ModelDurations == {0, 1}

Min(a, b) == IF a <= b THEN a ELSE b

(* "Exponential backoff" in _run_loop.                                     *)
NextBackoff(backoff, base) ==
    IF backoff = 0 THEN base ELSE Min(backoff * 2, MAX_BACKOFF)

(* A cooldown check that lets every evaluation through.                    *)
InCooldownNever(t) == FALSE

(* "Check cooldown" in _run_signals at time t.                             *)
InCooldown(t) ==
    /\ Truthy(scfg.cooldown)
    /\ sensor.last_fired # -1
    /\ t - sensor.last_fired < scfg.cooldown

InitSensor ==
    /\ sensor = [pc |-> "off", stopped |-> FALSE, backoff |-> 0, last_fired |-> -1,
                 wake_at |-> 0, fails |-> 0, iters |-> 0, score |-> -1]
    /\ scfg \in [interval : Intervals, cooldown : Cooldowns, notify : BOOLEAN]
    /\ sensor_events = [sensor_updated |-> 0, sensor_error |-> 0,
                        notification_pushed |-> 0]
    /\ pushes = <<>>

(* Sensor.start().                                                         *)
SensorStart ==
    /\ UNCHANGED not_sensor
    /\ sensor.pc = "off"
    /\ ~sensor.stopped
    /\ sensor' = [sensor EXCEPT !.pc = "fetch"]
    /\ UNCHANGED <<scfg, sensor_events, pushes, hot_vars>>

(* _fetch returns: _write_to_hot_state sets the field "data", then         *)
(* _run_signals runs up to the model call, or to the sleep of the interval *)
(* when the signal is in its cooldown.                                     *)
FetchReturn ==
    /\ UNCHANGED not_sensor
    /\ sensor.pc = "fetch"
    /\ sensor.iters < MaxSensorIters
    /\ hs_fields' = [hs_fields EXCEPT
                        !["data"].value = SetValue(hs_fields["data"].cfg, Scalar),
                        !["data"].updated_at = hs_now]
    /\ sensor_events' = [sensor_events EXCEPT !.sensor_updated = @ + 1]
    /\ sensor' = [sensor EXCEPT
                     !.iters = @ + 1,
                     !.pc = IF InCooldown(hs_now) THEN "sleep" ELSE "model",
                     !.wake_at = IF InCooldown(hs_now)
                                 THEN hs_now + scfg.interval ELSE @]
    /\ UNCHANGED <<scfg, pushes, hs_now, hs_queue, hs_last, hs_supplied>>

(* _fetch raises: the error event, the backoff, the sleep of the backoff.  *)
FetchRaise ==
    LET backoff == NextBackoff(sensor.backoff, scfg.interval)
    IN  /\ UNCHANGED not_sensor
        /\ sensor.pc = "fetch"
        /\ sensor.iters < MaxSensorIters
        /\ sensor_events' = [sensor_events EXCEPT !.sensor_error = @ + 1]
        /\ sensor' = [sensor EXCEPT !.iters = @ + 1, !.pc = "backoff",
                                    !.backoff = backoff, !.fails = @ + 1,
                                    !.wake_at = hs_now + backoff]
        /\ UNCHANGED <<scfg, pushes, hot_vars>>

(* The signal's model call returns after d seconds with a score.           *)
SignalReturn(score, d) ==
    LET t == hs_now + d
        fired == score # -1 /\ score >= THRESHOLD
    IN  /\ UNCHANGED not_sensor
        /\ sensor.pc = "model"
        /\ hs_now' = t
        /\ sensor' = [sensor EXCEPT !.pc = "sleep", !.wake_at = t + scfg.interval,
                                    !.score = score,
                                    !.last_fired = IF fired THEN t ELSE @]
        /\ IF fired /\ scfg.notify
           THEN /\ hs_queue' = Append(hs_queue, "alert")
                /\ pushes' = SubSeq(<<t>> \o pushes, 1, Min(2, Len(pushes) + 1))
                /\ sensor_events' = [sensor_events EXCEPT !.notification_pushed = @ + 1]
           ELSE UNCHANGED <<hs_queue, pushes, sensor_events>>
        /\ UNCHANGED <<scfg, hs_fields, hs_last, hs_supplied>>

(* The signal's model call raises: logged, nothing fires.                  *)
SignalRaise ==
    /\ UNCHANGED not_sensor
    /\ sensor.pc = "model"
    /\ sensor' = [sensor EXCEPT !.pc = "sleep", !.wake_at = hs_now + scfg.interval]
    /\ UNCHANGED <<scfg, sensor_events, pushes, hot_vars>>

(* The sleep of the interval ends: the iteration has succeeded.            *)
IterationDone ==
    /\ UNCHANGED not_sensor
    /\ sensor.pc = "sleep"
    /\ hs_now' = sensor.wake_at
    /\ sensor' = [sensor EXCEPT !.pc = "fetch", !.backoff = 0, !.fails = 0]
    /\ UNCHANGED <<scfg, sensor_events, pushes, hs_fields, hs_queue, hs_last, hs_supplied>>

(* The sleep of the backoff ends: the loop retries.                        *)
BackoffDone ==
    /\ UNCHANGED not_sensor
    /\ sensor.pc = "backoff"
    /\ hs_now' = sensor.wake_at
    /\ sensor' = [sensor EXCEPT !.pc = "fetch"]
    /\ UNCHANGED <<scfg, sensor_events, pushes, hs_fields, hs_queue, hs_last, hs_supplied>>

(* Sensor.stop(): the task is cancelled where it waits.                    *)
SensorStop ==
    /\ UNCHANGED not_sensor
    /\ sensor.pc # "off"
    /\ sensor' = [sensor EXCEPT !.pc = "off", !.stopped = TRUE]
    /\ UNCHANGED <<scfg, sensor_events, pushes, hot_vars>>

NextSensor ==
    \/ SensorStart
    \/ FetchReturn
    \/ FetchRaise
    \/ \E score \in Scores, d \in ModelDurations : SignalReturn(score, d)
    \/ SignalRaise
    \/ IterationDone
    \/ BackoffDone
    \/ SensorStop

(***************************************************************************)
(* AutonomyLoop._sleep_with_wake_early (autonomy_loop.py); time in tenths  *)
(* of a second.                                                            *)
(***************************************************************************)
TENTHS == 10

(* The seconds and the wake names a yield asks for.                        *)
SleepSeconds == {0, 1, 2, 12}
WakeLists == {{}, {"alert"}}

(* "interval = min(1.0, seconds / 10)".                                    *)
PollInterval(seconds) == Min(TENTHS, seconds)

(* A poll that wakes on any queued notification.                           *)
MatchesAny(wake_early_if) == hs_queue # <<>>

(* "for n in self.hot_state._notifications: if n.name in wake_early_if".   *)
Matches(wake_early_if) ==
    \E i \in 1..Len(hs_queue) : hs_queue[i] \in wake_early_if

InitNap ==
    nap = [pc |-> "idle", seconds |-> 0, wake_early_if |-> {}, elapsed |-> 0,
           woken |-> FALSE, stopped |-> FALSE]

(* The call, up to its first asyncio.sleep or, when the loop's condition   *)
(* fails at once, to its return.                                           *)
SleepBegin(seconds, wake_early_if) ==
    /\ UNCHANGED not_nap
    /\ nap.pc = "idle"
    /\ nap' = [nap EXCEPT
                  !.seconds = seconds,
                  !.wake_early_if = wake_early_if,
                  !.pc = IF wake_early_if = {} THEN "plain"
                         ELSE IF 0 < seconds * TENTHS THEN "polling"
                         ELSE "returned"]

(* asyncio.sleep(seconds) of the call without wake names returns.          *)
PlainReturn ==
    /\ UNCHANGED not_nap
    /\ nap.pc = "plain"
    /\ nap' = [nap EXCEPT !.pc = "returned", !.elapsed = nap.seconds * TENTHS]

(* asyncio.sleep(interval) returns: elapsed is advanced, the queue is      *)
(* searched, and the loop's condition is tested again.                     *)
Poll ==
    LET elapsed == nap.elapsed + PollInterval(nap.seconds)
    IN  /\ UNCHANGED not_nap
        /\ nap.pc = "polling"
        /\ nap' = [nap EXCEPT
                      !.elapsed = elapsed,
                      !.woken = Matches(nap.wake_early_if),
                      !.pc = IF Matches(nap.wake_early_if) THEN "returned"
                             ELSE IF elapsed < nap.seconds * TENTHS /\ ~nap.stopped
                             THEN "polling"
                             ELSE "returned"]

(* AutonomyLoop.stop() during the sleep: _stopped is set and the task is   *)
(* cancelled where it waits.                                               *)
NapStop ==
    /\ UNCHANGED not_nap
    /\ nap.pc \in {"plain", "polling"}
    /\ nap' = [nap EXCEPT !.pc = "cancelled", !.stopped = TRUE]

NextNap ==
    \/ \E seconds \in SleepSeconds, wake_early_if \in WakeLists :
          SleepBegin(seconds, wake_early_if)
    \/ PlainReturn
    \/ Poll
    \/ NapStop
    \/ \E name \in NotificationNames : HotPush(name)

(***************************************************************************)
(* AutonomyLoop._parse_yield_from_response on the texts of Texts.          *)
(***************************************************************************)
Texts ==
    { Text(shutting, sleeping, secs, wake, indicator) :
        shutting \in {NoPhrase, "Shutting down", "shutting down"},
        sleeping \in {NoPhrase, "Sleeping for", "sleeping for"},
        secs \in {-1, 5, 30},
        wake \in {<<>>, <<"alert">>, <<"Alert">>, <<"alert", "noise">>},
        indicator \in {FALSE} }

NotParsed == [done |-> FALSE, text |-> Text(NoPhrase, NoPhrase, -1, <<>>, FALSE),
              directive |-> ParseYield(Text(NoPhrase, NoPhrase, -1, <<>>, FALSE))]

InitParse == parsed = NotParsed

(* _parse_yield_from_response(text).                                       *)
Parse(text) ==
    /\ UNCHANGED not_parse
    /\ parsed' = [done |-> TRUE, text |-> text, directive |-> ParseYield(text)]

NextParse == \E text \in Texts : Parse(text)

(***************************************************************************)
(* EventBus (src/openhoof/core/events.py): the history, the in-process     *)
(* subscribers and the websocket clients.  A call of emit runs on the      *)
(* event loop: it is suspended only inside a callback or inside send_text, *)
(* and the other callers of the bus run while it is.                       *)
(***************************************************************************)
MaxEmits == 2
MaxRegs == 2
MAX_HISTORY == 1000

EventTypes == {"agent:started", "agent:message"}
Wildcard == "*"
SubscriberKeys == EventTypes \cup {Wildcard}
EventAgents == {"a", "b"}
NoAgent == ""
Handlers == {"h1", "h2"}
Clients == {"w1", "w2"}
Components == {"c1", "c2"}

(* Event(type, data): seq stands for the identity of the object, the       *)
(* position of its emission.                                               *)
Event(type, agent, n) == [type |-> type, agent |-> agent, seq |-> n]

(* The events the history holds at the start: the last n emitted before.   *)
OldEvent(n) ==
    Event(IF n % 2 = 0 THEN "agent:started" ELSE "agent:message",
          IF n % 3 = 0 THEN "b" ELSE "a", n)
OldHistory(n) == [i \in 1..n |-> OldEvent(i - n)]

(* What the inputs of emit are drawn from.                                 *)
EmitInputs == {<<"agent:started", "a">>, <<"agent:message", "a">>,
               <<"agent:message", "b">>}

NotEmitting == [pc |-> "idle", k |-> "none", i |-> 0, ev |-> Event("none", NoAgent, 0),
                disconnected |-> <<>>, must |-> {}, target |-> "none"]

NoRecent == [called |-> FALSE, limit |-> 0, event_types |-> {}, agent_id |-> NoAgent,
             result |-> <<>>]

InitBus ==
    /\ bus_prefill \in {0, MAX_HISTORY - 1}
    /\ bus_history = OldHistory(bus_prefill)
    /\ bus_count = 0
    /\ bus_subscribers = [k \in SubscriberKeys |-> <<>>]
    /\ bus_regs = 0
    /\ bus_stamp = [h \in Handlers |-> 0]
    /\ bus_websockets = <<>>
    /\ bus_connected = {}
    /\ bus_emit = [c \in Components |-> NotEmitting]
    /\ bus_observed = <<>>
    /\ bus_got = [w \in Clients |-> <<>>]
    /\ bus_raised = {}
    /\ bus_returns = <<>>
    /\ recent = NoRecent

(* list.remove(x): the list without the first x.                           *)
Range(q) == {q[n] : n \in 1..Len(q)}
FirstAt(q, x) == CHOOSE n \in 1..Len(q) : q[n] = x /\ \A m \in 1..(n - 1) : q[m] # x
Remove(q, x) ==
    LET n == FirstAt(q, x) IN SubSeq(q, 1, n - 1) \o SubSeq(q, n + 1, Len(q))

(* "for client in disconnected: self._websockets.remove(client)": remove   *)
(* raises ValueError for a client that is no longer in the list, and the   *)
(* clients after it stay.                                                  *)
RECURSIVE RemoveDisconnected(_, _)
RemoveDisconnected(ws, disconnected) ==
    IF disconnected = <<>> THEN [websockets |-> ws, raised |-> FALSE]
    ELSE IF Head(disconnected) \in Range(ws)
         THEN RemoveDisconnected(Remove(ws, Head(disconnected)), Tail(disconnected))
         ELSE [websockets |-> ws, raised |-> TRUE]

(* The callbacks that were called with the event.                          *)
ObserversOf(n) == {bus_observed[x].h : x \in {y \in 1..Len(bus_observed) : bus_observed[y].seq = n}}

(* emit from position i of the list k ("type": the callbacks of the        *)
(* event's type, "wild": those of "*", "ws": the websocket clients) to its *)
(* next await or to its end.  The for loops read the lists as they are     *)
(* when the loop comes to position i.                                      *)
Resume(c, k, i, e, disconnected, must) ==
    LET tl == bus_subscribers[e.type]
        wl == bus_subscribers[Wildcard]
        j  == IF k = "wild" THEN i ELSE 0
        m  == IF k = "ws" THEN i ELSE 0
        at(k2, i2, x) == [pc |-> IF k2 = "ws" THEN "send" ELSE "callback", k |-> k2,
                          i |-> i2, ev |-> e, disconnected |-> disconnected,
                          must |-> must, target |-> x]
        call(k2, i2, h) ==
            /\ bus_emit' = [bus_emit EXCEPT ![c] = at(k2, i2, h)]
            /\ bus_observed' = Append(bus_observed,
                   [h |-> h, seq |-> e.seq, stamp |-> bus_stamp[h], by |-> c])
            /\ UNCHANGED <<bus_websockets, bus_returns>>
        r == RemoveDisconnected(bus_websockets, disconnected)
    IN  IF k = "type" /\ i < Len(tl) THEN call("type", i + 1, tl[i + 1])
        ELSE IF k \in {"type", "wild"} /\ j < Len(wl) THEN call("wild", j + 1, wl[j + 1])
        ELSE IF m < Len(bus_websockets)
        THEN /\ bus_emit' = [bus_emit EXCEPT ![c] = at("ws", m + 1, bus_websockets[m + 1])]
             /\ UNCHANGED <<bus_observed, bus_websockets, bus_returns>>
        ELSE /\ bus_emit' = [bus_emit EXCEPT ![c] = NotEmitting]
             /\ bus_websockets' = r.websockets
             /\ bus_returns' = Append(bus_returns,
                    [seq |-> e.seq, by |-> c, raised |-> r.raised,
                     missed |-> must \ ObserversOf(e.seq)])
             /\ UNCHANGED bus_observed

(* The callbacks and the clients are taken in one order: h1 is the first  *)
(* callback ever subscribed, w1 the first client ever connected.           *)
HandlerOrder == <<"h1", "h2">>
ClientOrder == <<"w1", "w2">>
FirstNew(x, order, used) ==
    \E n \in 1..Len(order) :
        order[n] = x /\ x \notin used /\ \A m \in 1..(n - 1) : order[m] \in used

(* EventBus.subscribe(event_type, callback), for a callback that is not    *)
(* subscribed.  bus_regs counts the subscribers and the clients.           *)
Subscribe(k, h) ==
    /\ bus_regs < MaxRegs
    /\ \A k2 \in SubscriberKeys : h \notin Range(bus_subscribers[k2])
    /\ bus_stamp[h] # 0 \/ FirstNew(h, HandlerOrder, {x \in Handlers : bus_stamp[x] # 0})
    /\ bus_subscribers' = [bus_subscribers EXCEPT ![k] = Append(@, h)]
    /\ bus_regs' = bus_regs + 1
    /\ bus_stamp' = [bus_stamp EXCEPT ![h] = bus_regs + 1]
    /\ UNCHANGED <<bus_history, bus_prefill, bus_count, bus_websockets, bus_connected,
                   bus_emit, bus_observed, bus_got, bus_raised, bus_returns, recent>>
    /\ UNCHANGED not_bus

(* EventBus.unsubscribe(event_type, callback) of a subscribed callback.    *)
(* A call of emit under way no longer has to reach the callback.           *)
Unsubscribe(k, h) ==
    /\ h \in Range(bus_subscribers[k])
    /\ bus_subscribers' = [bus_subscribers EXCEPT ![k] = Remove(@, h)]
    /\ bus_emit' = [c \in Components |-> [bus_emit[c] EXCEPT !.must = @ \ {h}]]
    /\ UNCHANGED <<bus_history, bus_prefill, bus_count, bus_regs, bus_stamp,
                   bus_websockets, bus_connected, bus_observed, bus_got, bus_raised,
                   bus_returns, recent>>
    /\ UNCHANGED not_bus

(* EventBus.connect_websocket(websocket): a new client that receives every *)
(* event (api/app.py passes no subscribed_agents).                         *)
ConnectWebsocket(w) ==
    /\ bus_regs < MaxRegs
    /\ FirstNew(w, ClientOrder, bus_connected)
    /\ bus_websockets' = Append(bus_websockets, w)
    /\ bus_connected' = bus_connected \cup {w}
    /\ bus_regs' = bus_regs + 1
    /\ UNCHANGED <<bus_history, bus_prefill, bus_count, bus_subscribers,
                   bus_stamp, bus_emit, bus_observed, bus_got, bus_raised,
                   bus_returns, recent>>
    /\ UNCHANGED not_bus

(* EventBus.disconnect_websocket(client) of a client in the list.          *)
DisconnectWebsocket(w) ==
    /\ w \in Range(bus_websockets)
    /\ bus_websockets' = Remove(bus_websockets, w)
    /\ UNCHANGED <<bus_history, bus_prefill, bus_count, bus_subscribers, bus_regs,
                   bus_stamp, bus_connected, bus_emit, bus_observed, bus_got,
                   bus_raised, bus_returns, recent>>
    /\ UNCHANGED not_bus

(* EventBus.emit(event_type, data) called by component c, to its first     *)
(* await: the event is appended to the history, which is cut to its last   *)
(* _max_history events.                                                    *)
Emit(c, type, agent) ==
    /\ bus_emit[c].pc = "idle"
    /\ bus_count < MaxEmits
    /\ LET e == Event(type, agent, bus_count + 1)
       IN  /\ bus_history' =
                 IF Len(bus_history) + 1 > MAX_HISTORY
                 THEN PyLast(Append(bus_history, e), MAX_HISTORY)
                 ELSE Append(bus_history, e)
           /\ Resume(c, "type", 0, e, <<>>,
                     Range(bus_subscribers[type]) \cup Range(bus_subscribers[Wildcard]))
    /\ bus_count' = bus_count + 1
    /\ UNCHANGED <<bus_prefill, bus_subscribers, bus_regs, bus_stamp, bus_connected,
                   bus_got, bus_raised, recent>>
    /\ UNCHANGED not_bus

(* The callback emit awaits returns.                                       *)
CallbackReturn(c) ==
    /\ bus_emit[c].pc = "callback"
    /\ Resume(c, bus_emit[c].k, bus_emit[c].i, bus_emit[c].ev,
              bus_emit[c].disconnected, bus_emit[c].must)
    /\ UNCHANGED <<bus_history, bus_prefill, bus_count, bus_subscribers, bus_regs,
                   bus_stamp, bus_connected, bus_got, bus_raised, recent>>
    /\ UNCHANGED not_bus

(* The callback emit awaits raises an Exception: it is logged and the loop *)
(* goes on.                                                                *)
CallbackRaise(c) ==
    /\ bus_emit[c].pc = "callback"
    /\ Resume(c, bus_emit[c].k, bus_emit[c].i, bus_emit[c].ev,
              bus_emit[c].disconnected, bus_emit[c].must)
    /\ UNCHANGED <<bus_history, bus_prefill, bus_count, bus_subscribers, bus_regs,
                   bus_stamp, bus_connected, bus_got, bus_raised, recent>>
    /\ UNCHANGED not_bus

(* client.websocket.send_text returns: the client has the event.           *)
SendReturn(c) ==
    /\ bus_emit[c].pc = "send"
    /\ bus_got' = [bus_got EXCEPT ![bus_emit[c].target] =
                      Append(@, [seq |-> bus_emit[c].ev.seq,
                                 failed_before |-> bus_emit[c].target \in bus_raised])]
    /\ Resume(c, "ws", bus_emit[c].i, bus_emit[c].ev,
              bus_emit[c].disconnected, bus_emit[c].must)
    /\ UNCHANGED <<bus_history, bus_prefill, bus_count, bus_subscribers, bus_regs,
                   bus_stamp, bus_connected, bus_raised, recent>>
    /\ UNCHANGED not_bus

(* client.websocket.send_text raises: the client joins disconnected.       *)
SendRaise(c) ==
    /\ bus_emit[c].pc = "send"
    /\ bus_raised' = bus_raised \cup {bus_emit[c].target}
    /\ Resume(c, "ws", bus_emit[c].i, bus_emit[c].ev,
              Append(bus_emit[c].disconnected, bus_emit[c].target), bus_emit[c].must)
    /\ UNCHANGED <<bus_history, bus_prefill, bus_count, bus_subscribers, bus_regs,
                   bus_stamp, bus_connected, bus_got, recent>>
    /\ UNCHANGED not_bus

(* EventBus.get_recent_events(limit, event_types, agent_id): an empty      *)
(* event_types and an empty agent_id filter nothing.                       *)
Limits == {0, 2, 100}

RecentEvents(history, limit, event_types, agent_id) ==
    LET OfTypes(e) == event_types = {} \/ e.type \in event_types
        OfAgent(e) == agent_id = NoAgent \/ e.agent = agent_id
    IN  PyLast(SelectSeq(SelectSeq(history, OfTypes), OfAgent), limit)

GetRecentEvents(limit, event_types, agent_id) ==
    /\ recent' = [called |-> TRUE, limit |-> limit, event_types |-> event_types,
                  agent_id |-> agent_id,
                  result |-> RecentEvents(bus_history, limit, event_types, agent_id)]
    /\ UNCHANGED <<bus_history, bus_prefill, bus_count, bus_subscribers, bus_regs,
                   bus_stamp, bus_websockets, bus_connected, bus_emit, bus_observed,
                   bus_got, bus_raised, bus_returns>>
    /\ UNCHANGED not_bus

(* The bus with its subscribers and clients.                               *)
NextBus ==
    \/ \E k \in SubscriberKeys, h \in Handlers : Subscribe(k, h)
    \/ \E k \in SubscriberKeys, h \in Handlers : Unsubscribe(k, h)
    \/ \E w \in Clients : ConnectWebsocket(w)
    \/ \E w \in Clients : DisconnectWebsocket(w)
    \/ \E c \in Components : Emit(c, "agent:started", "a")
    \/ \E c \in Components : CallbackReturn(c)
    \/ \E c \in Components : CallbackRaise(c)
    \/ \E c \in Components : SendReturn(c)
    \/ \E c \in Components : SendRaise(c)

(* The history and its readers.                                            *)
NextHistory ==
    \/ \E x \in EmitInputs : Emit("c1", x[1], x[2])
    \/ \E limit \in Limits, event_types \in SUBSET EventTypes,
          agent_id \in EventAgents \cup {NoAgent} :
          GetRecentEvents(limit, event_types, agent_id)

(***************************************************************************)
(* TranscriptStore.append_message, compact and get_messages_for_context on *)
(* one session (src/openhoof/core/transcripts.py).                         *)
(***************************************************************************)
MaxMessages == 3
MaxCompactions == 2

Roles == {"system", "user", "assistant"}
NoSummary == ""
Summaries == {NoSummary, "s1", "s2"}
KeepLasts == {0, 1, 2}

(* Transcript(session_id, agent_id): no message, no summary.               *)
NewTranscript == [messages |-> <<>>, summary |-> NoSummary, compaction_count |-> 0]

NoCompact == [n |-> 0, keep_last |-> 0, summary |-> NoSummary, rewrote |-> FALSE]

InitStoreCalls ==
    /\ store = NewTranscript
    /\ store_call = NoCompact

(* A compaction that rewrites whatever the length of the transcript.       *)
CompactAlways(t, keep_last, text) ==
    [messages |-> CompactMessages(t.messages, keep_last),
     summary |-> text,
     compaction_count |-> t.compaction_count + 1]

(* TranscriptStore.compact: the transcript it saves and returns.           *)
Compact(t, keep_last, text) ==
    IF ~CompactRewrites(t.messages, keep_last) THEN t
    ELSE [messages |-> CompactMessages(t.messages, keep_last),
          summary |-> text,
          compaction_count |-> t.compaction_count + 1]

(* The message get_messages_for_context makes of the summary.              *)
SummaryMessage(text) == [role |-> "system", turn |-> 0, compaction |-> TRUE, text |-> text]
InContext(m) == [role |-> m.role, turn |-> m.turn, compaction |-> FALSE, text |-> NoSummary]
RECURSIVE AllInContext(_)
AllInContext(msgs) ==
    IF msgs = <<>> THEN <<>> ELSE <<InContext(Head(msgs))>> \o AllInContext(Tail(msgs))

(* TranscriptStore.get_messages_for_context(session_id, max_messages).     *)
MessagesForContext(t, max_messages) ==
    LET system_msgs == SelectSeq(t.messages, IsSystem)
        other_msgs == SelectSeq(t.messages, IsNonSystem)
        recent_msgs == IF Len(other_msgs) > max_messages
                  THEN PyLast(other_msgs, max_messages) ELSE other_msgs
    IN  (AllInContext(system_msgs)
         \o (IF t.summary # NoSummary THEN <<SummaryMessage(t.summary)>> ELSE <<>>))
        \o AllInContext(recent_msgs)

(* How many messages were appended to the session: compact never drops    *)
(* the newest one.                                                         *)
Appended(msgs) ==
    IF msgs = <<>> THEN 0
    ELSE CHOOSE n \in 1..MaxMessages :
            /\ \E x \in 1..Len(msgs) : msgs[x].turn = n
            /\ \A x \in 1..Len(msgs) : msgs[x].turn <= n

(* append_message(session_id, agent_id, Message(role, ...)): the n-th      *)
(* message appended to the session.                                        *)
AppendMessage(role) ==
    /\ Appended(store.messages) < MaxMessages
    /\ store' = [store EXCEPT !.messages = Append(@, Msg(role, Appended(@) + 1))]
    /\ UNCHANGED store_call
    /\ UNCHANGED not_store

(* compact(session_id, keep_last, summary).                                *)
CompactCall(keep_last, text) ==
    /\ store_call.n < MaxCompactions
    /\ store' = Compact(store, keep_last, text)
    /\ store_call' = [n |-> store_call.n + 1, keep_last |-> keep_last,
                      summary |-> text,
                      rewrote |-> CompactRewrites(store.messages, keep_last)]
    /\ UNCHANGED not_store

NextStore ==
    \/ \E role \in Roles : AppendMessage(role)
    \/ \E keep_last \in KeepLasts, text \in Summaries : CompactCall(keep_last, text)

(***************************************************************************)
(* MemoryWriteTool.execute and MemoryReadTool.execute                      *)
(* (src/openhoof/tools/builtin/memory.py).  A name is the sequence of its  *)
(* characters, a path the sequence of its names from the root, and         *)
(* str(path) the characters of "/name/name...".                            *)
(***************************************************************************)
MaxParts == 3

WorkspaceName == <<"a">>
SiblingName == <<"a", "b">>
ParentName == <<"d">>
OtherName == <<"e">>
FileName == <<"s">>
Up == <<".", ".">>

(* context.workspace_dir: /d/a.                                            *)
WorkspaceDir == <<ParentName, WorkspaceName>>

(* The directories and the files on the disk.                              *)
Dirs == {<<>>, <<ParentName>>, WorkspaceDir, <<ParentName, SiblingName>>, <<OtherName>>}
Files == {WorkspaceDir \o <<FileName>>, <<ParentName, SiblingName, FileName>>,
          <<OtherName, FileName>>}

(* params["file"]: a relative or an absolute path of at most MaxParts      *)
(* parts.                                                                  *)
PathParts == {Up, WorkspaceName, SiblingName, ParentName, OtherName, FileName}
FileArgs ==
    [absolute : BOOLEAN,
     parts : UNION {[1..n -> PathParts] : n \in 0..MaxParts}]

(* workspace / file_path: an absolute right operand replaces the left one. *)
JoinPath(workspace, file) ==
    IF file.absolute THEN file.parts ELSE workspace \o file.parts

(* Path.resolve() where no name is a symbolic link: ".." drops the name    *)
(* before it, and stays at the root.                                       *)
RECURSIVE ResolveFrom(_, _)
ResolveFrom(done, rest) ==
    IF rest = <<>> THEN done
    ELSE IF Head(rest) = Up
         THEN ResolveFrom(IF done = <<>> THEN <<>> ELSE SubSeq(done, 1, Len(done) - 1),
                          Tail(rest))
         ELSE ResolveFrom(Append(done, Head(rest)), Tail(rest))
Resolve(path) == ResolveFrom(<<>>, path)

(* str(path).                                                              *)
RECURSIVE Str(_)
Str(path) ==
    IF path = <<>> THEN <<"/">>
    ELSE IF Len(path) = 1 THEN <<"/">> \o Head(path)
    ELSE (<<"/">> \o Head(path)) \o Str(Tail(path))

(* s.startswith(prefix).                                                   *)
StartsWith(q, prefix) ==
    Len(prefix) <= Len(q) /\ SubSeq(q, 1, Len(prefix)) = prefix

(* "str(full_path).startswith(str(workspace_resolved))".                   *)
PathAllowed(full_path, workspace_resolved) ==
    StartsWith(Str(full_path), Str(workspace_resolved))

(* A name before the last one of the path is a file.                       *)
UnderAFile(path) == \E n \in 1..(Len(path) - 1) : SubSeq(path, 1, n) \in Files

NoMemoryCall == [called |-> FALSE, tool |-> "none", file |-> [absolute |-> FALSE, parts |-> <<>>],
                 full_path |-> <<>>, outcome |-> "none", touched |-> {}]

InitMemory == memory_call = NoMemoryCall

MemoryCall(tool, file, full_path, outcome, touched) ==
    [called |-> TRUE, tool |-> tool, file |-> file, full_path |-> full_path,
     outcome |-> outcome, touched |-> touched]

(* MemoryWriteTool.execute: the check, then mkdir(parents=True) of the     *)
(* parent, which raises under a file, then the write, which fails on a     *)
(* directory.                                                              *)
MemoryWrite(file) ==
    /\ LET full_path == Resolve(JoinPath(WorkspaceDir, file))
       IN  memory_call' =
             IF ~PathAllowed(full_path, Resolve(WorkspaceDir))
             THEN MemoryCall("memory_write", file, full_path, "failed", {})
             ELSE IF UnderAFile(full_path)
             THEN MemoryCall("memory_write", file, full_path, "raised", {})
             ELSE IF full_path \in Dirs
             THEN MemoryCall("memory_write", file, full_path, "failed", {})
             ELSE MemoryCall("memory_write", file, full_path, "success", {full_path})
    /\ UNCHANGED not_memory

(* MemoryReadTool.execute: the check, then "File not found", then the      *)
(* read, which fails on a directory.                                       *)
MemoryRead(file) ==
    /\ LET full_path == Resolve(JoinPath(WorkspaceDir, file))
       IN  memory_call' =
             IF ~PathAllowed(full_path, Resolve(WorkspaceDir))
             THEN MemoryCall("memory_read", file, full_path, "failed", {})
             ELSE IF full_path \notin (Files \cup Dirs)
             THEN MemoryCall("memory_read", file, full_path, "failed", {})
             ELSE IF full_path \in Dirs
             THEN MemoryCall("memory_read", file, full_path, "failed", {})
             ELSE MemoryCall("memory_read", file, full_path, "success", {full_path})
    /\ UNCHANGED not_memory

NextMemory ==
    \/ \E file \in FileArgs : MemoryWrite(file)
    \/ \E file \in FileArgs : MemoryRead(file)

(***************************************************************************)
(* ToolRegistry.get_openai_schemas as _run_agent_turn calls it             *)
(* (src/openhoof/tools/registry.py, src/openhoof/agents/lifecycle.py).     *)
(***************************************************************************)
(* Tools of register_builtin_tools, in the order of their registration.    *)
RegisteredTools ==
    <<"memory_write", "memory_read", "notify", "spawn_agent", "yield", "list_tools">>

(* YieldTool.autonomous_only = True; no other tool has the attribute.      *)
AutonomousOnly(name) == name = "yield"

(* AgentConfig.tools: the names the agent is allowed, empty for all.       *)
ConfigTools ==
    SUBSET {"memory_write", "memory_read", "notify", "spawn_agent", "yield", "unknown_tool"}

(* Who runs the turn: a chat message, the heartbeat, the autonomy loop.    *)
TurnKinds == {"chat", "heartbeat", "autonomy"}

(* get_openai_schemas(tool_names): an empty tool_names filters nothing.    *)
OpenAiSchemas(tool_names) ==
    LET Named(t) == t \in tool_names
    IN  IF tool_names # {} THEN SelectSeq(RegisteredTools, Named) ELSE RegisteredTools

NoListing == [called |-> FALSE, kind |-> "none", tools |-> {}, schemas |-> <<>>]

InitListing == listing = NoListing

(* _run_agent_turn: "tool_names = handle.config.tools or None; tools =      *)
(* self.tool_registry.get_openai_schemas(tool_names)", whoever runs the    *)
(* turn.                                                                   *)
ListTurnTools(kind, tools) ==
    /\ listing' = [called |-> TRUE, kind |-> kind, tools |-> tools,
                   schemas |-> OpenAiSchemas(tools)]
    /\ UNCHANGED not_registry

NextRegistry == \E kind \in TurnKinds, tools \in ConfigTools : ListTurnTools(kind, tools)

(***************************************************************************)
(* AutonomyLoop._run_turn (src/openhoof/agents/autonomy_loop.py), one step *)
(* per stretch of code between two awaits, while the sensors of the agent  *)
(* push notifications and write the hot state.                             *)
(***************************************************************************)
MaxTurnCalls == 2
MaxPushes == 2
MaxFieldWrites == 2

ACTION_WINDOW == 60

(* updated_at of a field that was never set (None).                        *)
NoTime == -1

(* Texts, character by character.                                          *)
Chars(w) ==
    CASE w = "YES" -> <<"Y", "E", "S">>
      [] w = "yes" -> <<"y", "e", "s">>
      [] w = "No" -> <<"N", "o">>
      [] w = "eyes" -> <<"e", "y", "e", "s">>
      [] w = "Done" -> <<"D", "o", "n", "e">>
      [] w = "Tools" -> <<"T", "o", "o", "l", "s">>
      [] w = "Error:" -> <<"E", "r", "r", "o", "r", ":">>
      [] w = "Success" -> <<"S", "u", "c", "c", "e", "s", "s">>
      [] w = "Tool" -> <<"T", "o", "o", "l">>
      [] w = "executed" -> <<"e", "x", "e", "c", "u", "t", "e", "d">>

(* str.upper() of one character.                                           *)
UpperChar(c) ==
    CASE c = "y" -> "Y"
      [] c = "e" -> "E"
      [] c = "s" -> "S"
      [] c = "o" -> "O"
      [] OTHER -> c

Upper(text) == [i \in 1..Len(text) |-> UpperChar(text[i])]

(* "pat in text".                                                          *)
Contains(text, pat) ==
    \E i \in 1..(Len(text) - Len(pat) + 1) : SubSeq(text, i, i + Len(pat) - 1) = pat

(* What the call of the pre-check model comes to: an exception, or a       *)
(* response with this content.                                             *)
PrecheckOutcomes ==
    {[raised |-> TRUE, content |-> <<>>]}
        \cup {[raised |-> FALSE, content |-> Chars(w)] : w \in {"YES", "yes", "No", "eyes"}}

NoAnswer == [raised |-> FALSE, content |-> <<>>]

(* A gate that lets a turn through on YES alone.                           *)
PrecheckFailsClosed(outcome) ==
    ~outcome.raised /\ Contains(Upper(outcome.content), Chars("YES"))

(* _run_precheck: "return 'YES' in response.content.upper()", and          *)
(* "except Exception: return True".                                        *)
ShouldProceed(outcome) ==
    outcome.raised \/ Contains(Upper(outcome.content), Chars("YES"))

(* The final text of an agent turn, and the number of tools the turn       *)
(* executed.                                                               *)
FinalTexts == {Chars("Done"), Chars("Tools"), Chars("Error:")}
ToolCounts == {0, 1}

(* _response_had_tool_calls.                                               *)
Indicators == {Chars("Success"), Chars("Error:"), Chars("Tool"), Chars("executed")}
ResponseHadToolCalls(response) == \E ind \in Indicators : Contains(response, ind)

(* _record_action at time t.                                               *)
RECURSIVE DropOld(_, _)
DropOld(actions, cutoff) ==
    IF actions # <<>> /\ Head(actions) < cutoff
    THEN DropOld(Tail(actions), cutoff)
    ELSE actions
RecordAction(actions, t) == DropOld(Append(actions, t), t - ACTION_WINDOW)

(* HotState.diff_since on the one field: the values it reports.            *)
DiffSince(f, timestamp) ==
    IF f.updated_at # NoTime /\ f.updated_at > timestamp THEN {f.value} ELSE {}

NoMessage == [built |-> FALSE, notifications |-> <<>>, hot_state |-> 0]

(* _build_context_message: the notifications in the queue, peeked, and the *)
(* value of the field as render() shows it (0: not yet loaded).            *)
BuildContextMessage(notifications, f) ==
    [built |-> TRUE, notifications |-> notifications, hot_state |-> f.value]

InitRunTurn ==
    /\ rt = [pc |-> "idle", turn_count |-> 0, has_notifications |-> FALSE,
             last_snapshot_time |-> 0, last_meaningful_action |-> 0,
             actions_this_minute |-> <<>>, message |-> NoMessage, popped |-> <<>>,
             answer |-> NoAnswer, skip |-> "none", executed |-> 0, response |-> <<>>]
    /\ rt_clock = 0
    /\ rt_notifications = <<>>
    /\ rt_pushes = 0
    /\ rt_field = [value |-> 0, updated_at |-> NoTime]
    /\ rt_writes = 0
    /\ rt_seen = {}

(* From the auto-refresh (no field has a refresh_tool: nothing is awaited) *)
(* to the await of the autonomy:turn_started emit: the message is built.   *)
ToTurnStarted(r) ==
    /\ rt' = [r EXCEPT !.pc = "starting",
                       !.message = BuildContextMessage(rt_notifications, rt_field)]
    /\ rt_seen' = rt_seen \cup ({rt_field.value} \ {0})

(* _loop calls _run_turn: the notifications are looked at and the          *)
(* pre-check gate is passed, up to the first await.                        *)
RunTurn ==
    LET has == Len(rt_notifications) > 0
        diff == DiffSince(rt_field, rt.last_snapshot_time)
        r0 == [rt EXCEPT !.turn_count = @ + 1, !.has_notifications = has,
                         !.message = NoMessage, !.popped = <<>>, !.answer = NoAnswer,
                         !.skip = "none", !.executed = 0, !.response = <<>>]
    IN  /\ rt.pc = "idle"
        /\ rt.turn_count < MaxTurnCalls
        /\ IF ~has /\ lcfg.precheck_model
           THEN IF diff = {}
                THEN /\ rt' = [r0 EXCEPT !.pc = "skipping", !.skip = "no_changes"]
                     /\ UNCHANGED rt_seen
                ELSE /\ rt' = [r0 EXCEPT !.pc = "precheck"]
                     /\ rt_seen' = rt_seen \cup diff
           ELSE ToTurnStarted(r0)
        /\ UNCHANGED <<rt_clock, rt_notifications, rt_pushes, rt_field, rt_writes>>
        /\ UNCHANGED not_turn

(* The await of _run_precheck ends.                                        *)
RunPrecheckReturn(outcome) ==
    LET r0 == [rt EXCEPT !.answer = outcome]
    IN  /\ rt.pc = "precheck"
        /\ IF ShouldProceed(outcome)
           THEN ToTurnStarted(r0)
           ELSE /\ rt' = [r0 EXCEPT !.pc = "skipping", !.skip = "no_material_changes"]
                /\ UNCHANGED rt_seen
        /\ UNCHANGED <<rt_clock, rt_notifications, rt_pushes, rt_field, rt_writes>>
        /\ UNCHANGED not_turn

(* The await of the autonomy:precheck_skipped emit ends: _run_turn returns *)
(* its sleep directive.                                                    *)
SkipEmitted ==
    /\ rt.pc = "skipping"
    /\ rt' = [rt EXCEPT !.pc = "idle"]
    /\ UNCHANGED <<rt_clock, rt_notifications, rt_pushes, rt_field, rt_writes, rt_seen>>
    /\ UNCHANGED not_turn

(* The await of the autonomy:turn_started emit ends: the notifications are *)
(* popped, the snapshot time is taken and the agent turn is awaited.       *)
TurnStartedEmitted ==
    /\ rt.pc = "starting"
    /\ rt_clock' = rt_clock + 1
    /\ rt' = [rt EXCEPT !.pc = "agent", !.popped = rt_notifications,
                        !.last_snapshot_time = rt_clock']
    /\ rt_notifications' = <<>>
    /\ UNCHANGED <<rt_pushes, rt_field, rt_writes, rt_seen>>
    /\ UNCHANGED not_turn

(* _run_agent_turn returns the final text, after executing so many tools:  *)
(* the meaningful action is tracked, autonomy:turn_completed is emitted.   *)
AgentTurnReturn(response, executed) ==
    /\ rt.pc = "agent"
    /\ IF ResponseHadToolCalls(response)
       THEN /\ rt_clock' = rt_clock + 1
            /\ rt' = [rt EXCEPT !.pc = "completing", !.response = response,
                                !.executed = executed,
                                !.last_meaningful_action = rt_clock',
                                !.actions_this_minute = RecordAction(@, rt_clock')]
       ELSE /\ rt' = [rt EXCEPT !.pc = "completing", !.response = response,
                                !.executed = executed]
            /\ UNCHANGED rt_clock
    /\ UNCHANGED <<rt_notifications, rt_pushes, rt_field, rt_writes, rt_seen>>
    /\ UNCHANGED not_turn

(* _run_agent_turn raises: the exception leaves _run_turn.                 *)
AgentTurnRaise ==
    /\ rt.pc = "agent"
    /\ rt' = [rt EXCEPT !.pc = "idle"]
    /\ UNCHANGED <<rt_clock, rt_notifications, rt_pushes, rt_field, rt_writes, rt_seen>>
    /\ UNCHANGED not_turn

(* The await of the autonomy:turn_completed emit ends: _run_turn returns.  *)
TurnCompletedEmitted ==
    /\ rt.pc = "completing"
    /\ rt' = [rt EXCEPT !.pc = "idle"]
    /\ UNCHANGED <<rt_clock, rt_notifications, rt_pushes, rt_field, rt_writes, rt_seen>>
    /\ UNCHANGED not_turn

(* A signal of a sensor calls push_notification.                           *)
PushNotification ==
    /\ rt_pushes < MaxPushes
    /\ rt_pushes' = rt_pushes + 1
    /\ rt_notifications' = Append(rt_notifications, rt_pushes')
    /\ UNCHANGED <<rt, rt_clock, rt_field, rt_writes, rt_seen>>
    /\ UNCHANGED not_turn

(* A sensor calls HotState.set on the field.                               *)
SetField ==
    /\ rt_writes < MaxFieldWrites
    /\ rt_writes' = rt_writes + 1
    /\ rt_clock' = rt_clock + 1
    /\ rt_field' = [value |-> rt_writes', updated_at |-> rt_clock']
    /\ UNCHANGED <<rt, rt_notifications, rt_pushes, rt_seen>>
    /\ UNCHANGED not_turn

NextTurn ==
    \/ RunTurn
    \/ \E outcome \in PrecheckOutcomes : RunPrecheckReturn(outcome)
    \/ SkipEmitted
    \/ TurnStartedEmitted
    \/ \E response \in FinalTexts, executed \in ToolCounts :
          AgentTurnReturn(response, executed)
    \/ AgentTurnRaise
    \/ TurnCompletedEmitted
    \/ PushNotification
    \/ SetField

(***************************************************************************)
(* Sensor._parse_score (src/openhoof/core/sensors.py): the two regular     *)
(* expressions, character by character; a score is kept in hundredths.     *)
(***************************************************************************)
MaxScoreLen == 4

SCALE == 100

(* No score (None).                                                        *)
NoScore == -1

ScoreChars == {"0", "1", "5", ".", " ", "a"}

RECURSIVE TextsOfLen(_)
TextsOfLen(n) ==
    IF n = 0 THEN {<<>>}
    ELSE {Append(t, c) : t \in TextsOfLen(n - 1), c \in ScoreChars}

ScoreTexts == UNION {TextsOfLen(n) : n \in 1..MaxScoreLen}

IsDigit(c) == c \in {"0", "1", "5"}

DigitValue(c) == CASE c = "0" -> 0 [] c = "1" -> 1 [] c = "5" -> 5

(* \w of the regular expressions.                                          *)
IsWordChar(c) == IsDigit(c) \/ c = "a"

(* The character at position i; outside the text there is no word          *)
(* character.                                                              *)
CharAt(text, i) == IF i \in 1..Len(text) THEN text[i] ELSE " "

(* \b just before position i.                                              *)
WordBoundary(text, i) == IsWordChar(CharAt(text, i - 1)) # IsWordChar(CharAt(text, i))

(* The last position of the run of characters of one kind that starts at   *)
(* i (i - 1: there is none).                                               *)
RECURSIVE RunEnd(_, _, _)
RunEnd(text, i, zeros_only) ==
    IF /\ i <= Len(text)
       /\ IF zeros_only THEN text[i] = "0" ELSE IsDigit(text[i])
    THEN RunEnd(text, i + 1, zeros_only)
    ELSE i - 1

(* A match of the first pattern that starts at i: a word boundary, then 0  *)
(* with an optional fraction of digits or 1 with an optional fraction of   *)
(* zeros, then a word boundary. The position after the match, 0 when there *)
(* is none; the fraction is taken whole when a word boundary follows it,   *)
(* and left out otherwise.                                                 *)
MatchUnit(text, i) ==
    LET lead == CharAt(text, i)
        e == RunEnd(text, i + 2, lead = "1")
    IN  IF ~WordBoundary(text, i) \/ lead \notin {"0", "1"} THEN 0
        ELSE IF CharAt(text, i + 1) = "." /\ e >= i + 2 /\ WordBoundary(text, e + 1)
        THEN e + 1
        ELSE IF WordBoundary(text, i + 1) THEN i + 1
        ELSE 0

(* A match of the second pattern that starts at i: digits, an optional     *)
(* point, and the digits after it.                                         *)
MatchNumber(text, i) ==
    LET e == RunEnd(text, i, FALSE)
        f == RunEnd(text, e + 2, FALSE)
    IN  IF ~IsDigit(CharAt(text, i)) THEN 0
        ELSE IF CharAt(text, e + 1) = "." THEN f + 1
        ELSE e + 1

(* re.findall from position i, with the pattern of the two named by unit.  *)
RECURSIVE FindAll(_, _, _)
FindAll(text, i, unit) ==
    LET n == IF unit THEN MatchUnit(text, i) ELSE MatchNumber(text, i)
    IN  IF i > Len(text) THEN <<>>
        ELSE IF n > 0 THEN <<SubSeq(text, i, n - 1)>> \o FindAll(text, n, unit)
        ELSE FindAll(text, i + 1, unit)

RECURSIVE DigitsValue(_)
DigitsValue(digits) ==
    IF digits = <<>> THEN 0
    ELSE 10 * DigitsValue(SubSeq(digits, 1, Len(digits) - 1))
             + DigitValue(digits[Len(digits)])

(* float(m), in hundredths, of a match with at most two decimals.          *)
Float(m) ==
    LET e == RunEnd(m, 1, FALSE)
        decimals == SubSeq(m, e + 2, Len(m))
    IN  SCALE * DigitsValue(SubSeq(m, 1, e))
            + (IF Len(decimals) = 1 THEN 10 * DigitsValue(decimals)
               ELSE DigitsValue(decimals))

(* The first of the values that lies in [0, 1].                            *)
RECURSIVE FirstInRange(_)
FirstInRange(matches) ==
    IF matches = <<>> THEN NoScore
    ELSE IF Float(Head(matches)) <= SCALE THEN Float(Head(matches))
    ELSE FirstInRange(Tail(matches))

(* _parse_score.                                                           *)
ParseScore(text) ==
    LET matches == FindAll(text, 1, TRUE)
    IN  IF matches # <<>>
        THEN Float(matches[Len(matches)])
        ELSE FirstInRange(FindAll(text, 1, FALSE))

NoScoreCall == [called |-> FALSE, text |-> <<>>, score |-> NoScore]

InitScore == score_call = NoScoreCall

(* _run_signals: "score = self._parse_score(response.content)".            *)
ParseScoreCall(text) ==
    /\ ~score_call.called
    /\ score_call' = [called |-> TRUE, text |-> text, score |-> ParseScore(text)]
    /\ UNCHANGED not_score

NextScore == \E text \in ScoreTexts : ParseScoreCall(text)

(***************************************************************************)
(* YieldTool.execute (src/openhoof/tools/builtin/yield_tool.py) and the    *)
(* loop's parser on the message it returns. A message is a sequence of     *)
(* pieces of text; a number is the piece "#" with its value, and "--" is   *)
(* the dash the tool puts before the reason.                               *)
(***************************************************************************)
VALID_MODES == {"sleep", "continue", "shutdown"}

Word(w) == [w |-> w, n |-> 0]
Number(n) == [w |-> "#", n |-> n]

(* What an agent passes to the tool.                                       *)
YieldModes == VALID_MODES \cup {"pause"}
YieldSleeps == {0, 5, 900}
YieldReasons ==
    { <<>>,
      <<Word("idle")>>,
      <<Word("not"), Word("shutting down")>>,
      <<Word("Sleeping for"), Number(5), Word("s")>> }
YieldWakes == {<<>>, <<"alert">>, <<"Alert">>, <<"alert", "noise">>}

YieldParams ==
    [mode : YieldModes, sleep : YieldSleeps, reason : YieldReasons,
     wake_early_if : YieldWakes]

(* ', '.join(names), between the brackets of the message.                  *)
Joined(names) == [i \in 1..Len(names) |-> Word(names[i])]

(* YieldTool.execute: the ToolResult.                                      *)
YieldExecute(params) ==
    LET told == IF params.reason # <<>> THEN <<Word("--")>> \o params.reason ELSE <<>>
        woken == IF params.wake_early_if # <<>>
                 THEN <<Word("(wake early on:")>> \o Joined(params.wake_early_if)
                          \o <<Word(")")>>
                 ELSE <<>>
    IN  IF params.mode \notin VALID_MODES
        THEN [success |-> FALSE, message |-> <<>>]
        ELSE IF params.mode = "sleep" /\ params.sleep <= 0
        THEN [success |-> FALSE, message |-> <<>>]
        ELSE IF params.mode = "sleep"
        THEN [success |-> TRUE,
              message |-> <<Word("Sleeping for"), Number(params.sleep), Word("s")>>
                              \o woken \o told]
        ELSE IF params.mode = "continue"
        THEN [success |-> TRUE, message |-> <<Word("Continuing immediately")>> \o told]
        ELSE [success |-> TRUE,
              message |-> <<Word("Shutting down"), Word("autonomous loop")>> \o told]

(* The first piece of the message that is this phrase in lower case; 0:    *)
(* there is none.                                                          *)
FirstPhrase(msg, phrase) ==
    LET at == {i \in 1..Len(msg) : Lower(msg[i].w) = phrase}
    IN  IF at = {} THEN 0 ELSE CHOOSE i \in at : \A j \in at : i <= j

(* The pieces from i on up to the first ")", which has to be there.        *)
RECURSIVE UpToBracket(_, _)
UpToBracket(msg, i) ==
    IF i > Len(msg) THEN <<Word(")")>>
    ELSE IF msg[i].w = ")" THEN <<>>
    ELSE <<msg[i]>> \o UpToBracket(msg, i + 1)

(* What _parse_yield_from_response finds in a message: the two phrases,    *)
(* the number between "sleeping for " and "s", the names after "wake early *)
(* on: " up to the closing bracket.                                        *)
Searched(msg) ==
    LET down == FirstPhrase(msg, "shutting down")
        sleeping == FirstPhrase(msg, "sleeping for")
        timed == {i \in 1..(Len(msg) - 2) :
                     /\ Lower(msg[i].w) = "sleeping for"
                     /\ msg[i + 1].w = "#"
                     /\ msg[i + 2].w = "s"}
        first_timed == CHOOSE i \in timed : \A j \in timed : i <= j
        wake == FirstPhrase(msg, "(wake early on:")
        names == IF wake = 0 THEN <<>> ELSE UpToBracket(msg, wake + 1)
        closed == names # <<>> /\ names[Len(names)].w # ")"
    IN  Text(IF down = 0 THEN NoPhrase ELSE msg[down].w,
             IF sleeping = 0 THEN NoPhrase ELSE msg[sleeping].w,
             IF timed = {} THEN -1 ELSE msg[first_timed + 1].n,
             IF closed THEN [i \in 1..Len(names) |-> names[i].w] ELSE <<>>,
             FALSE)

NotYielded ==
    [called |-> FALSE,
     params |-> [mode |-> "continue", sleep |-> 0, reason |-> <<>>, wake_early_if |-> <<>>],
     result |-> [success |-> FALSE, message |-> <<>>],
     directive |-> [mode |-> "continue", sleep |-> 0, wake_early_if |-> <<>>]]

InitYield == yielded = NotYielded

(* The agent calls the yield tool, and the loop parses the message of the  *)
(* tool.                                                                   *)
YieldCall(params) ==
    LET result == YieldExecute(params)
    IN  /\ ~yielded.called
        /\ yielded' = [called |-> TRUE, params |-> params, result |-> result,
                       directive |-> ParseYield(Searched(result.message))]
        /\ UNCHANGED not_yield

NextYield == \E params \in YieldParams : YieldCall(params)

(***************************************************************************)
(* The manager as the owner of an autonomy loop: start_agent and           *)
(* stop_agent of lifecycle.py on the agent whose loop is `loop`.           *)
(***************************************************************************)
Owned == "a"

(* start_agent for an agent without a handle, up to its first suspension:  *)
(* the heartbeat is started, the loop is constructed, the handle is        *)
(* registered with status running, autonomy_loop.start() starts the        *)
(* sensors and creates the task.                                           *)
OwnerStart ==
    /\ ~AlreadyStarted(Owned)
    /\ created[Owned] = 0
    /\ loop.pc = "off"
    /\ RegisterAgent(Owned)
    /\ loop' = [loop EXCEPT !.pc = "scheduled", !.stopped = FALSE, !.sensors_on = TRUE,
                            !.last_meaningful_action = now]
    /\ UNCHANGED <<ev_stopped, ev_message, config, workspace_ok, task, transcript,
                   summary, compaction_count, total_tokens, n_turns>>
    /\ UNCHANGED <<now, lcfg, hs_notifs, hs_changed, ev_guardrail, ev_turn_started,
                   ev_turn_completed, ev_precheck_skipped, reported_this_hour>>
    /\ UNCHANGED stop_vars
    /\ UNCHANGED not_owner

(* stop_agent for an agent with a handle: autonomy_loop.stop(),            *)
(* heartbeat.stop(), the handle is deleted, agent:stopped is emitted.      *)
OwnerStop ==
    /\ ~NoHandle(Owned)
    /\ loop' = Stopped(loop)
    /\ loop_tasks' = [loop_tasks EXCEPT ![Owned] = @ \ {agents[Owned]}]
    /\ hb_tasks' = [hb_tasks EXCEPT ![Owned] = @ \ {agents[Owned]}]
    /\ agents' = [agents EXCEPT ![Owned] = 0]
    /\ ev_stopped' = [ev_stopped EXCEPT ![Owned] = @ + 1]
    /\ stop_returned' = [stop_returned EXCEPT ![Owned] = "true"]
    /\ stop_log' = [stop_log EXCEPT ![Owned] = StopSteps(config)]
    /\ UNCHANGED <<created, ev_started, ev_message, config, workspace_ok, task,
                   transcript, summary, compaction_count, total_tokens, n_turns>>
    /\ UNCHANGED <<now, lcfg, hs_notifs, hs_changed, ev_guardrail, ev_turn_started,
                   ev_turn_completed, ev_precheck_skipped, reported_this_hour>>
    /\ UNCHANGED not_owner

NextOwner ==
    \/ OwnerStart
    \/ OwnerStop
    \/ \E inside \in BOOLEAN : LoopBegin(inside)
    \/ \E inside \in BOOLEAN : LoopWake(inside)
    \/ \E answer \in {"yes", "no", "raise"}, d \in Durations : PrecheckReturn(answer, d)
    \/ \E r \in Responses, k \in TurnTokens, d \in Durations, inside \in BOOLEAN :
          TurnReturn(r, k, d, inside)
    \/ \E d \in Durations : TurnRaise(d)
    \/ SensorWrite
    \/ SensorNotify

Usage == {1}

NextMgr ==
    \/ \E t \in Tasks, a \in Agents : StartAgent(t, a)
    \/ \E t \in Tasks, a \in Agents : Chat(t, a)
    \/ \E t \in Tasks : StartReturn(t)
    \/ \E t \in Tasks, a \in Agents, c \in {"heartbeat", "autonomy"} :
          RunnerTurn(t, a, c)
    \/ \E t \in Tasks, ok \in BOOLEAN : CompactReturn(t, ok)
    \/ \E t \in Tasks, h \in BOOLEAN, k \in Usage : LLMReturn(t, h, k)
    \/ \E t \in Tasks : LLMRaise(t)
    \/ \E t \in Tasks : ToolsDone(t)
    \/ \E a \in Agents : StopAgent(a)
    \/ \E t \in Tasks : TaskReturn(t)

vars == <<mgr_vars, loop_vars, sub_vars, stop_vars, hot_vars, sensor_vars, nap_vars,
          parse_vars, bus_vars, store_vars, memory_vars, registry_vars, turn_vars,
          score_vars, yield_vars>>

(* The configuration and the stores as the program starts.                 *)
InitStop ==
    /\ stop_returned = [a \in Agents |-> "none"]
    /\ stop_log = [a \in Agents |-> <<>>]

Init == InitBus /\ InitMgr /\ InitLoop /\ InitSub /\ InitStop /\ InitHot
        /\ InitSensor /\ InitNap /\ InitParse /\ InitStoreCalls /\ InitMemory
        /\ InitListing /\ InitRunTurn /\ InitScore /\ InitYield

(* The event bus where the bus is not what is checked.                     *)
NoEvents == bus_prefill = 0

(* The manager and its turns, under one autonomy configuration.            *)
(* The schema of the hot state where the hot state is not what is checked. *)
OneSchema ==
    /\ hs_fields["items"].cfg = [type |-> "array", ttl |-> -1, max_items |-> 2]
    /\ hs_fields["data"].cfg = [type |-> "object", ttl |-> 2, max_items |-> 2]

(* The poll sensor where the sensor is not what is checked.                *)
OneSensor == scfg = [interval |-> 5, cooldown |-> -1, notify |-> TRUE]

InitTurns ==
    /\ Init
    /\ NoEvents
    /\ config.max_tool_rounds \in {0, MaxToolRounds}
    /\ config.heartbeat_enabled = config.autonomy_enabled
    /\ OneSchema
    /\ OneSensor
    /\ lcfg.token_budget_per_hour = 100
    /\ ~lcfg.precheck_model
    /\ ~lcfg.active_hours

Next == NextMgr

Spec == InitTurns /\ [][Next]_vars

(* The manager and the autonomy loop where neither is what is checked.     *)
AtRest ==
    /\ NoEvents
    /\ config = [max_tool_rounds |-> 0, heartbeat_enabled |-> FALSE,
                 autonomy_enabled |-> TRUE]
    /\ workspace_ok
    /\ transcript["main"] = <<>>
    /\ lcfg.token_budget_per_hour = 100
    /\ ~lcfg.precheck_model
    /\ ~lcfg.active_hours

(* One hot state store under every schema of HotConfigs, the rest of the   *)
(* program at rest.                                                        *)
InitStore ==
    /\ Init
    /\ OneSensor
    /\ AtRest

SpecHot == InitStore /\ [][NextHot]_vars

(* One poll sensor under every configuration of InitSensor, writing to one *)
(* hot state, the rest of the program at rest.                             *)
InitPoll ==
    /\ Init
    /\ OneSchema
    /\ AtRest

SpecSensor == InitPoll /\ [][NextSensor]_vars

(* One sleep of the autonomy loop while notifications are pushed, the rest *)
(* of the program at rest.                                                 *)
InitSleep ==
    /\ InitStore
    /\ OneSchema

SpecSleep == InitSleep /\ [][NextNap]_vars

(* The yield parser on every text of Texts, the rest of the program at     *)
(* rest.                                                                   *)
SpecParse == InitSleep /\ [][NextParse]_vars

(* One autonomy loop with its sensors, for one agent whose manager state   *)
(* is fixed.                                                               *)
InitAutonomy ==
    /\ Init
    /\ NoEvents
    /\ OneSchema
    /\ OneSensor
    /\ config = [max_tool_rounds |-> 0, heartbeat_enabled |-> FALSE,
                 autonomy_enabled |-> TRUE]
    /\ workspace_ok
    /\ transcript["main"] = <<>>

SpecLoop == InitAutonomy /\ [][NextLoop]_vars

(* The manager with the sub-agent registry: turns that spawn sub-agent     *)
(* runs of their own agent, and the runs.                                  *)
InitSpawn ==
    /\ Init
    /\ NoEvents
    /\ OneSchema
    /\ OneSensor
    /\ config = [max_tool_rounds |-> 1, heartbeat_enabled |-> FALSE,
                 autonomy_enabled |-> FALSE]
    /\ workspace_ok
    /\ transcript["main"] = <<>>
    /\ lcfg.token_budget_per_hour = 100
    /\ ~lcfg.precheck_model
    /\ ~lcfg.active_hours

SpecSub == InitSpawn /\ [][NextSub]_vars

(* The event loop runs every task it holds: the task of a run starts, the  *)
(* wait_for around the child's turn ends (with the turn, or at the latest  *)
(* with its timer), and a turn that has ended returns to its caller.       *)
RunEnds == \E r \in RunIds : ChildReturn(r) \/ ChildRaise(r) \/ RunTimeout(r)

FairRuns ==
    /\ WF_vars(\E r \in RunIds : ExecuteRun(r))
    /\ WF_vars(RunEnds)
    /\ WF_vars(\E t \in Tasks : TaskReturn(t))

SpecRuns == InitSpawn /\ [][NextRuns]_vars /\ FairRuns


(* The manager, the loop, the stores and the sensor where none of them is  *)
(* what is checked.                                                        *)
Elsewhere ==
    /\ OneSchema
    /\ OneSensor
    /\ config = [max_tool_rounds |-> 0, heartbeat_enabled |-> FALSE,
                 autonomy_enabled |-> TRUE]
    /\ workspace_ok
    /\ transcript["main"] = <<>>
    /\ lcfg.token_budget_per_hour = 100
    /\ ~lcfg.precheck_model
    /\ ~lcfg.active_hours

(* The event bus from an empty history, with subscribers and clients that  *)
(* come and go while components emit.                                      *)
InitDelivery ==
    /\ Init
    /\ Elsewhere
    /\ NoEvents

SpecBus == InitDelivery /\ [][NextBus]_vars

(* The history of the bus, empty or one event short of full, and its       *)
(* readers, with no subscriber and no client.                              *)
InitHistory ==
    /\ Init
    /\ Elsewhere

SpecHistory == InitHistory /\ [][NextHistory]_vars

(* The tools and the transcript store: calls on one session, one workspace *)
(* and one registry, the rest of the program at rest.                      *)
InitCalls ==
    /\ Init
    /\ Elsewhere
    /\ NoEvents

SpecStore == InitCalls /\ [][NextStore]_vars

SpecMemory == InitCalls /\ [][NextMemory]_vars

SpecRegistry == InitCalls /\ [][NextRegistry]_vars

SpecScore == InitCalls /\ [][NextScore]_vars

SpecYield == InitCalls /\ [][NextYield]_vars

(* One agent with a heartbeat and an autonomy loop, not yet started.       *)
InitOwner ==
    /\ Init
    /\ NoEvents
    /\ OneSchema
    /\ OneSensor
    /\ config = [max_tool_rounds |-> 0, heartbeat_enabled |-> TRUE,
                 autonomy_enabled |-> TRUE]
    /\ workspace_ok
    /\ transcript["main"] = <<>>

SpecOwner == InitOwner /\ [][NextOwner]_vars

(* One autonomy loop running its turns, with or without a pre-check model, *)
(* the rest of the program at rest.                                        *)
InitTurnCalls ==
    /\ Init
    /\ NoEvents
    /\ OneSchema
    /\ OneSensor
    /\ config = [max_tool_rounds |-> 1, heartbeat_enabled |-> FALSE,
                 autonomy_enabled |-> TRUE]
    /\ workspace_ok
    /\ transcript["main"] = <<>>
    /\ lcfg.token_budget_per_hour = 100
    /\ ~lcfg.active_hours

SpecTurn == InitTurnCalls /\ [][NextTurn]_vars

(***************************************************************************)
(* Claims about the agent turn and the lifecycle, checked under Spec.      *)
(***************************************************************************)

(* C1: within one agent turns are strictly serial: two turns of one agent  *)
(* are never in flight at the same time.                                   *)
C1_TurnsSerial ==
    \A t, u \in Tasks :
        (t # u /\ InTurn(t) /\ InTurn(u)) => task[t].agent # task[u].agent

Saves(t) == task[t].pc = "llm" /\ task'[t].pc = "done"

(* C5 as stated: after a successful turn the transcript has exactly two    *)
(* messages more than when the turn began, whatever its length was.        *)
C5_TwoMoreThanAtStart ==
    [][\A t \in Tasks :
          Saves(t) => Len(transcript'[task[t].sess]) = task[t].len_before + 2]_vars

(* C5 amended: the save of a successful turn appends exactly the turn's    *)
(* user message and then its assistant message to the transcript as it is  *)
(* at the save, and nothing else; that is two more than at the turn's      *)
(* start whenever the transcript was not rewritten in between (by the      *)
(* turn's own auto-compaction or by another turn on the session).          *)
C5_SaveAppendsTwo ==
    [][\A t \in Tasks :
          Saves(t) =>
             /\ transcript'[task[t].sess] =
                   transcript[task[t].sess]
                      \o <<Msg("user", task[t].turn), Msg("assistant", task[t].turn)>>
             /\ ~task[t].dirty =>
                   Len(transcript'[task[t].sess]) = task[t].len_before + 2]_vars

C5_Witness ==
    \E t \in Tasks :
        /\ task[t].pc = "done"
        /\ task[t].caller = "chat"
        /\ task[t].dirty
        /\ task[t].len_before = MAX_CONTEXT_MESSAGES + 2
        /\ compaction_count["main"] = 1
        /\ Len(transcript["main"]) = COMPACT_KEEP_LAST + 2

(* Every user message of the transcript has the assistant message of its  *)
(* turn directly after it.                                                 *)
Paired(msgs) ==
    \A i \in 1..Len(msgs) :
        msgs[i].role = "user"
            => (i < Len(msgs) /\ msgs[i + 1] = Msg("assistant", msgs[i].turn))

(* before is the start of after.                                           *)
IsPrefix(before, after) ==
    Len(before) <= Len(after) /\ SubSeq(after, 1, Len(before)) = before

(* after is the end of before, at least keep messages of it (or all).      *)
IsKeptEnd(before, after, keep) ==
    /\ Len(after) <= Len(before)
    /\ Len(after) >= Min(keep, Len(before))
    /\ after = SubSeq(before, Len(before) - Len(after) + 1, Len(before))

C6_BackendErrorReturned ==
    \A t \in Tasks : ~(task[t].pc = "raised" /\ task[t].err = "llm")

(* C10: start_agent is idempotent: between two stops an agent gets one     *)
(* handle, one heartbeat runner, one autonomy loop with its sensors and    *)
(* one agent:started event, and every start_agent or auto-starting chat    *)
(* gets that handle.                                                       *)
C10_StartIdempotent ==
    \A a \in Agents :
        /\ created[a] = ev_stopped[a] + (IF agents[a] # 0 THEN 1 ELSE 0)
        /\ ev_started[a] = created[a]
        /\ hb_tasks[a] =
              IF agents[a] # 0 /\ config.heartbeat_enabled THEN {agents[a]} ELSE {}
        /\ loop_tasks[a] =
              IF agents[a] # 0 /\ config.autonomy_enabled THEN {agents[a]} ELSE {}
        /\ \A t \in Tasks :
              (/\ task[t].agent = a
               /\ task[t].caller \in {"start", "chat"}
               /\ task[t].pc \notin {"idle", "raised"}
               /\ task[t].epoch = ev_stopped[a]) => task[t].ret = agents[a]

C10_Witness ==
    \E t, u \in Tasks :
        /\ task[t].pc = "start_emit"
        /\ task[u].pc = "done" /\ task[u].caller = "start"
        /\ task[u].ret = task[t].ret
        /\ agents[task[t].agent] = task[t].ret
        /\ ev_started[task[t].agent] = 1

(* C11: a stop_agent that returns False found no handle and changed        *)
(* nothing of the manager, the loop or the runs; agent:stopped is emitted  *)
(* only by a stop_agent that found a handle and returns True, and removes  *)
(* it, so a second stop_agent emits nothing.                               *)
C11_StopIdempotent ==
    [][\A a \in Agents :
          /\ (stop_returned'[a] = "false" /\ stop_returned[a] # "false") =>
                 /\ agents[a] = 0
                 /\ UNCHANGED <<mgr_vars, loop_vars, sub_vars, stop_log>>
          /\ ev_stopped'[a] # ev_stopped[a] =>
                 /\ agents[a] # 0
                 /\ agents'[a] = 0
                 /\ ev_stopped'[a] = ev_stopped[a] + 1
                 /\ stop_returned'[a] = "true"
      ]_vars

(* C11 witness: the agent was started once and stopped, and a second       *)
(* stop_agent has returned False; there is one agent:stopped.              *)
C11_Witness ==
    /\ created["a"] = 1
    /\ agents["a"] = 0
    /\ ev_stopped["a"] = 1
    /\ stop_returned["a"] = "false"

(* C12: stop_agent cancels the sensors before the loop task, the loop      *)
(* before the heartbeat, removes the handle after these and emits          *)
(* agent:stopped last; and no heartbeat or autonomy turn is in flight for  *)
(* a handle that has been removed.                                         *)
C12_UnwindOrder ==
    \A a \in Agents :
        LET log == stop_log[a]
            Before(x, y) == \A i, j \in DOMAIN log : (log[i] = x /\ log[j] = y) => i < j
        IN  /\ Before("sensors", "loop")
            /\ Before("loop", "heartbeat")
            /\ Before("sensors", "handle")
            /\ Before("loop", "handle")
            /\ Before("heartbeat", "handle")
            /\ log # <<>> => log[Len(log)] = "agent:stopped"
            /\ \A t \in Tasks :
                   (task[t].agent = a /\ task[t].caller \in {"heartbeat", "autonomy"}
                        /\ InTurn(t)) => task[t].ret = agents[a]

(***************************************************************************)
(* Claims about the autonomy loop (SpecLoop).                              *)
(***************************************************************************)

(* C3: the tokens that the turns of the current hour report are in the     *)
(* loop's hourly counter, and no turn is executing once they have reached  *)
(* the budget.                                                             *)
C3_ReportedTokensCounted ==
    /\ loop.tokens_this_hour = reported_this_hour
    /\ loop.pc = "turn" => reported_this_hour < lcfg.token_budget_per_hour

C7_TimeoutAsRequested ==
    \A r \in RunIds :
        runs[r].state = "ended" =>
            LET T == TimeoutAsRequested(runs[r].requested)
                lasted == runs[r].ended_at - runs[r].started_at
            IN  /\ lasted > T => runs[r].outcome = "timeout"
                /\ runs[r].outcome \in {"timeout", "failed"} =>
                       runs[r].error /\ runs[r].ended_at >= 0
                /\ runs[r].outcome = "completed" => runs[r].result /\ lasted <= T
                /\ saved_runs[r] = runs[r]

(* C8: a run that has ended has one subagent:spawned and one               *)
(* subagent:completed in the history, the spawned one first, and the       *)
(* completed one says success exactly when the outcome is "completed".     *)
C8_OneCompletedPerRun ==
    \A r \in RunIds :
        runs[r].state = "ended" =>
            LET sp == {i \in DOMAIN sub_events :
                          sub_events[i].type = "spawned" /\ sub_events[i].run = r}
                cp == {i \in DOMAIN sub_events :
                          sub_events[i].type = "completed" /\ sub_events[i].run = r}
            IN  /\ Cardinality(sp) = 1
                /\ Cardinality(cp) = 1
                /\ \A i \in sp, j \in cp :
                       /\ i < j
                       /\ sub_events[j].success = (runs[r].outcome = "completed")

(* C9: a run appears registered, persisted and with its task, in the step  *)
(* in which the tool round of the spawning turn hands back to the turn;    *)
(* the step that removes the handle of an agent leaves the runs and their  *)
(* tasks as they are; and a run ends only from running, as completed,      *)
(* failed, or timed out at its deadline.                                   *)
C9_FireAndForget ==
    [][/\ \A r \in RunIds :
              (runs[r].state = "none" /\ runs'[r].state # "none") =>
                  /\ runs'[r].state = "registered"
                  /\ saved_runs'[r] = runs'[r]
                  /\ r \in sub_tasks'
                  /\ \E t \in Tasks : task[t].pc = "tools" /\ task'[t].pc = "llm"
       /\ \A a \in Agents :
              (agents[a] # 0 /\ agents'[a] = 0) =>
                  runs' = runs /\ sub_tasks' = sub_tasks
       /\ \A r \in RunIds :
              (runs[r].state # "ended" /\ runs'[r].state = "ended") =>
                  /\ runs[r].state = "running"
                  /\ runs'[r].outcome \in {"completed", "failed", "timeout"}
                  /\ runs'[r].outcome = "timeout" => clock >= Deadline(r)
      ]_vars

(* C9 witness: the spawning turn has returned to its caller and the agent  *)
(* has been stopped, and the run is still running.                         *)
C9_Witness ==
    /\ runs[1].state = "running"
    /\ 1 \in sub_tasks
    /\ agents["a"] = 0
    /\ ev_stopped["a"] = 1
    /\ ev_message["a"] = 1
    /\ \A t \in Tasks : task[t].pc = "idle"



(***************************************************************************)
(* Claims about the hot state (SpecHot).                                   *)
(***************************************************************************)

(* The n most recent elements of s, in their order.                        *)
MostRecent(s, n) ==
    IF Len(s) <= n THEN s ELSE SubSeq(s, Len(s) - n + 1, Len(s))

(* C13: an array field configured with max_items = M holds a list of at    *)
(* most M elements, and they are the most recent of the elements supplied  *)
(* by set and append since the last set, in the order supplied.            *)
C13_MostRecentWithinMax ==
    \A f \in DOMAIN hs_fields :
        (/\ hs_fields[f].cfg.type = "array"
         /\ hs_fields[f].cfg.max_items # -1
         /\ hs_fields[f].value.kind = "list")
        => /\ Len(hs_fields[f].value.list) <= hs_fields[f].cfg.max_items
           /\ hs_fields[f].value.list
                 = MostRecent(hs_supplied[f], hs_fields[f].cfg.max_items)


(* C14: a field with a ttl is stale exactly when it was never written or   *)
(* was written more than ttl seconds ago, a field without ttl and a name   *)
(* outside the schema are never stale, and render marks a loaded field as  *)
(* stale exactly when is_stale holds for it.                               *)
C14_StaleExactlyPastTtl ==
    /\ \A f \in DOMAIN hs_fields :
          IF hs_fields[f].cfg.ttl = -1
          THEN ~IsStale(f)
          ELSE IsStale(f) <=> \/ hs_fields[f].updated_at = -1
                              \/ hs_now - hs_fields[f].updated_at > hs_fields[f].cfg.ttl
    /\ \A f \in FieldNames \ DOMAIN hs_fields : ~IsStale(f)
    /\ \A f \in DOMAIN hs_fields :
          hs_fields[f].value.kind # "none" => (RenderStale(f) <=> IsStale(f))


(* C15: no step adds a field to the store, and set on a name outside the   *)
(* schema, append on a name outside the schema and append on a field that  *)
(* is not an array report failure and leave every field's value and        *)
(* updated_at and the notification queue as they were.                     *)
C15_UndeclaredWriteRejected ==
    [][/\ DOMAIN hs_fields' = DOMAIN hs_fields
       /\ hs_last'.n # hs_last.n
          => LET name == hs_last'.name
                 rejected == \/ name \notin DOMAIN hs_fields
                             \/ /\ hs_last'.op = "append"
                                /\ hs_fields[name].cfg.type # "array"
             IN  /\ rejected => /\ hs_last'.ok = "false"
                                /\ hs_fields' = hs_fields
                                /\ hs_queue' = hs_queue
                 /\ hs_last'.ok = "true" => name \in DOMAIN hs_fields]_vars

(* C15 happens: an append on the object field was rejected while the array *)
(* field holds a list and a notification is queued.                        *)
C15_Witness ==
    /\ hs_last.op = "append"
    /\ hs_last.name = "data"
    /\ hs_last.ok = "false"
    /\ hs_fields["items"].value.kind = "list"
    /\ Len(hs_fields["items"].value.list) > 0
    /\ hs_queue # <<>>


(***************************************************************************)
(* Claims about the sensors (SpecSensor).                                  *)
(***************************************************************************)

RECURSIVE Pow2(_)
Pow2(n) == IF n = 0 THEN 1 ELSE 2 * Pow2(n - 1)

(* C16: while the sensor waits after the k-th failed iteration in a row,   *)
(* k >= 1, it waits min(base_interval * 2^(k-1), 300) seconds, which is at *)
(* most 300, and a fetch error never ends the sensor's task.               *)
C16_BackoffDoublesToCap ==
    /\ sensor.pc = "backoff"
       => /\ sensor.fails >= 1
          /\ sensor.backoff = Min(scfg.interval * Pow2(sensor.fails - 1), MAX_BACKOFF)
          /\ sensor.backoff <= MAX_BACKOFF
          /\ sensor.wake_at = hs_now + sensor.backoff
    /\ sensor.pc = "off" => sensor.stopped \/ sensor.iters = 0


(* C17: a step of the sensor that pushes a notification follows a score at *)
(* or above the threshold, comes at least the cooldown after the signal    *)
(* last fired, pushes one notification with the signal's name and emits    *)
(* one notification_pushed event; two notifications of the signal are at   *)
(* least the cooldown apart.                                               *)
C17_PushPastCooldown ==
    [][hs_queue' # hs_queue
       => /\ sensor'.score # -1
          /\ sensor'.score >= THRESHOLD
          /\ (scfg.cooldown > 0 /\ sensor.last_fired # -1)
             => hs_now' - sensor.last_fired >= scfg.cooldown
          /\ hs_queue' = Append(hs_queue, "alert")
          /\ sensor_events'.notification_pushed = sensor_events.notification_pushed + 1
          /\ (scfg.cooldown > 0 /\ Len(pushes') = 2)
             => pushes'[1] - pushes'[2] >= scfg.cooldown]_vars

(* C17 happens: the signal with cooldown 150 on the sensor polling every   *)
(* 100 s has pushed twice.                                                 *)
C17_Witness ==
    /\ scfg.cooldown = 150
    /\ scfg.interval = 100
    /\ Len(pushes) = 2
    /\ Len(hs_queue) = 2
    /\ sensor_events.notification_pushed = 2


(***************************************************************************)
(* Claims about the sleep of the autonomy loop (SpecSleep).                *)
(***************************************************************************)

(* A notification with one of the sleep's wake names is queued.            *)
WakeNameQueued ==
    \E i \in 1..Len(hs_queue) : hs_queue[i] \in nap.wake_early_if

C19_ParsedAsWritten ==
    LET t == parsed.text
        y == parsed.directive
        sleepingN == Lower(t.sleeping) = "sleeping for" /\ t.secs >= 0
        shutting == Lower(t.shutting) = "shutting down"
    IN  parsed.done
        => /\ (sleepingN /\ ~shutting)
              => /\ y.mode = "sleep"
                 /\ y.sleep = t.secs
                 /\ y.wake_early_if = t.wake
           /\ (shutting /\ ~sleepingN) => y.mode = "shutdown"
           /\ (~shutting /\ ~sleepingN) => y.mode = "continue"


(***************************************************************************)
(* Claims about the pre-check gate of the autonomy loop (SpecLoop).        *)
(***************************************************************************)

Matching(limit, event_types, agent_id) ==
    LET Passes(e) == /\ event_types = {} \/ e.type \in event_types
                     /\ agent_id = NoAgent \/ e.agent = agent_id
    IN  SelectSeq(bus_history, Passes)

(* C22: the history holds at most 1000 events, and they are the most       *)
(* recently emitted ones in emission order; a call of get_recent_events    *)
(* returns at most limit events, the last ones of the history that match   *)
(* its filters, in emission order.                                         *)
C22_HistoryAndRecent ==
    [][/\ Len(bus_history') <= MAX_HISTORY
       /\ Len(bus_history') = Min(bus_prefill' + bus_count', MAX_HISTORY)
       /\ \A n \in 1..Len(bus_history') :
             bus_history'[n].seq = bus_count' - Len(bus_history') + n
       /\ recent' # recent
          => LET all == Matching(recent'.limit, recent'.event_types, recent'.agent_id)
                 n == Min(recent'.limit, Len(all))
             IN  /\ Len(recent'.result) <= recent'.limit
                 /\ recent'.result = SubSeq(all, Len(all) - n + 1, Len(all))]_vars


(* C23: when a call of emit has ended, every callback that was subscribed  *)
(* to the event's type or to "*" from the start of the call to its end has *)
(* been called with the event; the callbacks called with one event were    *)
(* called in the order of their subscribe calls; and a callback is called  *)
(* with the events of one component in the order of their emission.        *)
C23_AllObserveInOrder ==
    /\ \A n \in 1..Len(bus_returns) : bus_returns[n].missed = {}
    /\ \A x, y \in 1..Len(bus_observed) :
          (x < y /\ bus_observed[x].seq = bus_observed[y].seq)
          => bus_observed[x].stamp < bus_observed[y].stamp
    /\ \A x, y \in 1..Len(bus_observed) :
          (x < y /\ bus_observed[x].h = bus_observed[y].h
                 /\ bus_observed[x].by = bus_observed[y].by)
          => bus_observed[x].seq <= bus_observed[y].seq


(* C24: no call of emit waits for a websocket client; a client whose       *)
(* send_text raised is out of the list of clients once the call of emit    *)
(* that saw it raise has ended; and no event is delivered to a client      *)
(* after its send_text raised.                                             *)
C24_ExternalNeverBlocks ==
    /\ \A c \in Components : bus_emit[c].pc # "send"
    /\ \A w \in bus_raised :
          (\A c \in Components : w \notin Range(bus_emit[c].disconnected))
          => w \notin Range(bus_websockets)
    /\ \A w \in Clients : \A n \in 1..Len(bus_got[w]) : ~bus_got[w][n].failed_before


(* C38: no call of emit ends with an exception, whatever the other calls   *)
(* of emit, subscribe, unsubscribe and disconnect_websocket do meanwhile;  *)
(* every callback subscribed from the start of the call to its end was     *)
(* called with the event, and no callback was called twice with one event. *)
C38_EmitNeverRaises ==
    /\ \A n \in 1..Len(bus_returns) : ~bus_returns[n].raised
    /\ \A n \in 1..Len(bus_returns) : bus_returns[n].missed = {}
    /\ \A x, y \in 1..Len(bus_observed) :
          (bus_observed[x].seq = bus_observed[y].seq /\ bus_observed[x].h = bus_observed[y].h)
          => x = y


(***************************************************************************)
(* Claims about the transcript store (SpecStore).                          *)
(***************************************************************************)

(* The last n elements of a list, none when n = 0.                         *)
LastOf(q, n) == SubSeq(q, Len(q) - Min(n, Len(q)) + 1, Len(q))

(* C25: a call of compact that rewrites the transcript raises its          *)
(* compaction_count, keeps every system message, keeps of the other        *)
(* messages exactly the last keep_last in their order, and leaves at most  *)
(* one summary message in the context.                                     *)
C25_CompactKeepsLast ==
    [][(store_call'.n # store_call.n /\ store_call'.rewrote)
       => /\ store'.compaction_count > store.compaction_count
          /\ SelectSeq(store'.messages, IsSystem) = SelectSeq(store.messages, IsSystem)
          /\ SelectSeq(store'.messages, IsNonSystem)
               = LastOf(SelectSeq(store.messages, IsNonSystem), store_call'.keep_last)
          /\ LET IsSummary(m) == m.compaction
             IN  Len(SelectSeq(MessagesForContext(store', MaxMessages), IsSummary)) <= 1]_vars

(* C26: a call of compact on a transcript that holds at most keep_last     *)
(* messages other than system messages leaves its messages, its summary    *)
(* and its compaction_count as they are.                                   *)
C26_CompactIdempotent ==
    [][(/\ store_call'.n # store_call.n
        /\ Len(SelectSeq(store.messages, IsNonSystem)) <= store_call'.keep_last)
       => store' = store]_vars

(* C26, amended: a call of compact on a transcript that holds at most      *)
(* keep_last messages, system messages counted, leaves its messages, its   *)
(* summary and its compaction_count as they are.                           *)
C26_IdempotentWithinKeepLast ==
    [][(/\ store_call'.n # store_call.n
        /\ Len(store.messages) <= store_call'.keep_last)
       => store' = store]_vars

(* C26 happens: compact was applied twice, the first call cut the          *)
(* transcript to keep_last messages and the second left it as it was.      *)
C26_Witness ==
    /\ store_call.n = 2
    /\ ~store_call.rewrote
    /\ store.compaction_count = 1
    /\ store_call.keep_last > 0
    /\ Len(store.messages) = store_call.keep_last

(***************************************************************************)
(* Claims about the tools (SpecMemory, SpecRegistry).                      *)
(***************************************************************************)

(* The path is the workspace directory or lies under it.                   *)
InWorkspace(path) ==
    Len(path) >= Len(WorkspaceDir) /\ SubSeq(path, 1, Len(WorkspaceDir)) = WorkspaceDir

(* C27: a call of memory_write or memory_read succeeds only on a path that *)
(* resolves to the workspace directory or under it, returns a failed       *)
(* result on every other path, and reads, creates or modifies nothing      *)
(* outside the workspace directory.                                        *)
C27_MemoryStaysInWorkspace ==
    memory_call.called
    => /\ memory_call.outcome = "success" => InWorkspace(memory_call.full_path)
       /\ ~InWorkspace(memory_call.full_path) => memory_call.outcome = "failed"
       /\ \A path \in memory_call.touched : InWorkspace(path)

(* C28: the schemas offered to a turn are those of the allowed names when  *)
(* names are given, hold no autonomous_only tool unless the autonomy loop  *)
(* runs the turn, and hold the yield tool when it does and the tool is     *)
(* allowed.                                                                *)
C28_YieldOnlyForAutonomy ==
    listing.called
    => LET offered == {listing.schemas[n] : n \in 1..Len(listing.schemas)}
       IN  /\ listing.tools # {} => offered \subseteq listing.tools
           /\ listing.kind # "autonomy" => \A t \in offered : ~AutonomousOnly(t)
           /\ (listing.kind = "autonomy" /\ (listing.tools = {} \/ "yield" \in listing.tools))
              => "yield" \in offered


(***************************************************************************)
(* Claims about the errors and the end of the autonomy loop (SpecLoop).    *)
(***************************************************************************)

(* C29: the step in which an iteration of the loop raises an exception     *)
(* leaves the loop and its sensors running, in a pause of 5 s; and a step  *)
(* that ends the loop raises nothing and is the idle_timeout guardrail, a  *)
(* turn that yielded shutdown, or a call of stop() (the cancellation),     *)
(* which emits nothing and takes no time.                                  *)
C29_ErrorsNeverEndLoop ==
    [][/\ loop'.errors # loop.errors
          => /\ loop'.pc = "sleep"
             /\ loop'.wake_at = now' + ERROR_PAUSE
             /\ ~loop'.stopped
             /\ loop'.sensors_on
       /\ (loop.pc # "stopped" /\ loop'.pc = "stopped")
          => /\ loop'.errors = loop.errors
             /\ \/ ev_guardrail'["idle_timeout"] = ev_guardrail["idle_timeout"] + 1
                \/ /\ ev_turn_completed' = ev_turn_completed + 1
                   /\ loop'.last_yield = "shutdown"
                \/ UNCHANGED <<now, ev_guardrail, ev_turn_started, ev_turn_completed,
                               ev_precheck_skipped>>]_vars

(* C29 happens: a turn raised, the loop paused, and a turn of a later      *)
(* iteration is running.                                                   *)
C29_Witness ==
    /\ loop.errors >= 1
    /\ loop.pc = "turn"
    /\ ~loop.stopped

(* The step begins an iteration of the loop.                               *)
IterationStarts == loop'.iters = loop.iters + 1

(* At the start of the iteration the loop has been idle for more than      *)
(* idle_timeout.                                                           *)
IdleAtStart == now' - loop'.last_meaningful_action > lcfg.idle_timeout

(* The loop stopped itself and its sensors.                                *)
EndedItself == loop'.pc = "stopped" /\ loop'.stopped /\ ~loop'.sensors_on

(* What C30 says of the stopped loop, of the shutdown yield and of the     *)
(* turns the pre-check skips (in a step that does not also end a turn).    *)
StaysEnded ==
    /\ loop.pc = "stopped"
       => loop'.pc = "stopped" /\ ev_turn_started' = ev_turn_started
    /\ (ev_turn_completed' # ev_turn_completed /\ loop'.last_yield = "shutdown")
       => EndedItself
    /\ (/\ \E reason \in SkipReasons :
              ev_precheck_skipped'[reason] # ev_precheck_skipped[reason]
        /\ ev_turn_completed' = ev_turn_completed)
       => loop'.last_meaningful_action = loop.last_meaningful_action

SkipDecided == rt.pc # "skipping" /\ rt'.pc = "skipping"

(* The grounds of a skip: the diff was empty, or the pre-check model       *)
(* answered without YES.                                                   *)
SkipGrounds ==
    \/ /\ rt'.skip = "no_changes"
       /\ DiffSince(rt_field, rt.last_snapshot_time) = {}
    \/ /\ rt'.skip = "no_material_changes"
       /\ ~rt'.answer.raised
       /\ ~Contains(Upper(rt'.answer.content), Chars("YES"))

(* A turn that finds a notification pending is not suppressed, and a       *)
(* pre-check call that raises lets the turn begin.                         *)
GateFailsOpen ==
    /\ (rt.pc = "idle" /\ rt'.pc # "idle" /\ Len(rt_notifications) > 0)
       => rt'.pc = "starting"
    /\ (rt.pc = "precheck" /\ rt'.pc # "precheck" /\ rt'.answer.raised)
       => rt'.pc = "starting"

(* C31: the gate skips a turn only when no notification is pending and the *)
(* diff is empty or the answer of the pre-check model holds no YES; a turn *)
(* with a notification pending is never skipped; a pre-check call that     *)
(* raises lets the turn begin.                                             *)
C31_GateSkipsOnlyWithoutNotification ==
    [][/\ SkipDecided => (Len(rt_notifications') = 0 /\ SkipGrounds)
       /\ GateFailsOpen]_vars

(* C31, amended: as C31, for the notifications pending when the turn       *)
(* begins, which is when _run_turn looks at the queue.                     *)
C31_GateSkipsOnlyWithoutNotificationAtStart ==
    [][/\ SkipDecided
          => (~rt'.has_notifications /\ lcfg.precheck_model /\ SkipGrounds)
       /\ GateFailsOpen]_vars

(* C31 happens: the pre-check call raised with no notification pending,    *)
(* and the turn began.                                                     *)
C31_Witness ==
    /\ rt.pc = "starting"
    /\ rt.answer.raised
    /\ ~rt.has_notifications
    /\ rt.message.built

(* The step in which the agent turn of _run_turn returns.                  *)
AgentTurnEnds == rt.pc = "agent" /\ rt'.pc = "completing"

(* The meaningful action was tracked in this step.                         *)
ActionTracked ==
    /\ rt'.last_meaningful_action = rt_clock'
    /\ rt'.last_meaningful_action # rt.last_meaningful_action
    /\ rt'.actions_this_minute = Append(rt.actions_this_minute, rt_clock')

ActionUntracked ==
    /\ rt'.last_meaningful_action = rt.last_meaningful_action
    /\ rt'.actions_this_minute = rt.actions_this_minute

(* C32: after a turn, last_meaningful_action is set to the current time    *)
(* and one entry is recorded in the actions-per-minute window if and only  *)
(* if the turn executed at least one tool; a turn that executed no tool    *)
(* leaves both unchanged, whatever its final text says.                    *)
C32_TrackedIffToolExecuted ==
    [][AgentTurnEnds
          => IF rt'.executed > 0 THEN ActionTracked ELSE ActionUntracked]_vars

(* C34: every notification that a turn removes from the queue is in the    *)
(* Notifications section of the message of that turn.                      *)
C34_PoppedWereShown ==
    Range(rt.popped) \subseteq Range(rt.message.notifications)

(* The step in which a pre-check finds the diff empty and skips the turn.  *)
SkipsForNoChanges == SkipDecided /\ rt'.skip = "no_changes"

(* C35: no write is missed by both the turn and the next pre-check: when a *)
(* pre-check finds nothing changed, the value the field holds was rendered *)
(* in the message of a turn or reported by the diff of a pre-check.        *)
C35_NoWriteMissed ==
    [][SkipsForNoChanges => (rt_field.value = 0 \/ rt_field.value \in rt_seen)]_vars

(***************************************************************************)
(* Claims about _parse_score, checked under SpecScore.                     *)
(***************************************************************************)

(* C33: the score is the first floating-point number in [0,1] that appears *)
(* in the response, and a response with no number in [0,1] has no score.   *)
C33_ScoreIsFirstInRange ==
    score_call.called
        => score_call.score = FirstInRange(FindAll(score_call.text, 1, FALSE))

(***************************************************************************)
(* Claims about the yield tool, checked under SpecYield.                   *)
(***************************************************************************)

(* C36: the loop's parser, on the message of a yield call that the tool    *)
(* accepted, gives the mode of the call and, for a sleep, its seconds and  *)
(* its wake_early_if names.                                                *)
C36_YieldRoundTrip ==
    (yielded.called /\ yielded.result.success)
        => /\ yielded.directive.mode = yielded.params.mode
           /\ yielded.params.mode = "sleep"
                 => /\ yielded.directive.sleep = yielded.params.sleep
                    /\ yielded.directive.wake_early_if = yielded.params.wake_early_if

(***************************************************************************)
(* Claims about the manager and the loop it owns, checked under SpecOwner. *)
(***************************************************************************)

(* C37: while the manager holds the handle of an autonomous agent, the     *)
(* task of its autonomy loop and its sensors are alive.                    *)
C37_HandleMeansLiveLoop ==
    (~NoHandle(Owned) /\ config.autonomy_enabled)
        => (loop.pc \notin {"off", "stopped"} /\ ~loop.stopped /\ loop.sensors_on)

(***************************************************************************)
(* Claims about the outcome of the sub-agent runs (SpecRuns).              *)
(***************************************************************************)

(* A run has its outcome with its ended_at, after its started_at, in the   *)
(* registry and in the file.                                               *)
OutcomeWithEnd(run) ==
    /\ (run.outcome # "none") <=> (run.ended_at # -1)
    /\ run.outcome # "none" => run.outcome \in {"completed", "failed", "timeout"}
    /\ run.ended_at # -1 => (run.started_at # -1 /\ run.started_at <= run.ended_at)

(* An outcome that has been set stays.                                     *)
OutcomeStays ==
    \A r \in RunIds :
        /\ runs[r].outcome # "none" => runs'[r].outcome = runs[r].outcome
        /\ saved_runs[r].outcome # "none" => saved_runs'[r].outcome = saved_runs[r].outcome

(* C39: every run that was spawned reaches one outcome, completed, failed  *)
(* or timeout: the outcome is set exactly when ended_at is, not before     *)
(* started_at, it never changes once set, and no run in the file stays     *)
(* without an outcome forever, also when its task ended with the process   *)
(* and the registry was loaded from the file again.                        *)
C39_EveryRunEnds ==
    /\ [](\A r \in RunIds : OutcomeWithEnd(runs[r]) /\ OutcomeWithEnd(saved_runs[r]))
    /\ [][OutcomeStays]_vars
    /\ \A r \in RunIds : (saved_runs[r].state # "none") ~> (saved_runs[r].outcome # "none")

====
